---- MODULE Spec2Model ----
(***************************************************************************)
(* Verification model of the rewrd-api points ledger, its idempotency      *)
(* middleware and the Redis request/reply event service.                   *)
(*                                                                         *)
(*   SpecLedger  - PointsService.creditPoints / debitPoints as concurrent  *)
(*                 knex transactions with SELECT ... FOR UPDATE row locks  *)
(*   SpecBus     - RedisEventService (requestReply, handleResult, timers)  *)
(*   SpecHttp    - requireIdempotency + points controllers + errorHandler  *)
(*   SpecWebhook - WebhookService behind the credit route                  *)
(*   SpecDelegated - the delegated PointsService and the dashboard backend *)
(*   SpecRedeem, SpecVerbs, SpecConfig, SpecRules - the points routes next *)
(*                 to customer status, other verbs, merchant configuration *)
(*                 and earning rules                                       *)
(***************************************************************************)
EXTENDS Integers, Sequences, FiniteSets, TLC

VARIABLES
    \* ---- Ledger store (committed rows, as every other transaction sees them)
    Merchants,        \* merchant_id -> point_balance
    Customers,        \* <<merchant_id, uid>> -> points_balance
    Pointsledger,     \* sequence of committed ledger rows
    rowLock,          \* row -> transaction holding its FOR UPDATE lock, or NoTrx
    trx,              \* transaction slot -> the running call's position and locals
    returned,         \* what the call that has just ended returned or threw to its caller
    opsStarted,       \* number of calls issued so far
    customerStatus,   \* <<merchant_id, uid>> -> Customers.status
    merchantConfig,   \* merchant_id -> the columns of the Merchants row other than point_balance
    usersRewarded,    \* rule id -> WaysToEarn.users_rewarded
    increments,       \* the increment queries the credit controller started without awaiting them
    \* ---- RedisEventService
    pendingRequests,  \* correlationId -> PendingRequest (the waiter's future and timer)
    initialized,      \* RedisEventService.initialized
    listeners,        \* number of "message" listeners registered on redisSubscriber
    future,           \* correlationId -> state of the promise requestReply returned
    timer,            \* correlationId -> state of the deadline timer
    publish,          \* correlationId -> state of the publish promise
    published,        \* the envelopes handed to redisPublisher.publish
    logged,           \* the line the message handler wrote to the logger in the step just taken,
                      \* when it dropped the message
    forgotten,        \* the fireAndForget calls so far: envelope, publish and returned promise
    answers,          \* correlationId -> the HTTP response of the request that awaited the reply
    remote,           \* correlationId -> what the dashboard backend did with the event
    \* ---- HTTP pipeline of the points routes
    idempotencyStore, \* scoped key -> IdempotencyRecord
    now,              \* Date.now(), in milliseconds since the start
    requests,         \* the POST requests received so far, in order of arrival
    webhooks,         \* the calls of webhookService.sendWebhook made by the points controllers
    deliveries        \* every call of webhookService.sendWebhook: its promises, its HTTP attempts

ledgerVars == <<Merchants, Customers, Pointsledger, rowLock, trx, returned, opsStarted,
               customerStatus, merchantConfig, usersRewarded, increments>>

busVars == <<pendingRequests, initialized, listeners, future, timer, publish, published, logged,
            forgotten, answers, remote>>

httpVars == <<idempotencyStore, now, requests, webhooks, deliveries>>

vars == <<Merchants, Customers, Pointsledger, rowLock, trx, returned, opsStarted,
          customerStatus, merchantConfig, usersRewarded, increments,
          pendingRequests, initialized, listeners, future, timer, publish, published, logged,
          forgotten, answers, remote,
          idempotencyStore, now, requests, webhooks, deliveries>>

----------------------------------------------------------------------------
(* Bounds of the model                                                      *)

MaxOps == 3
MaxAmount == 2

\* initial balances: a pool one short of the largest amount, so that amounts below,
\* equal to and above the pool all occur
InitPool == MaxAmount - 1

Trx == {"t1", "t2"}
NoTrx == "none"

MerchantIds == {"m1"}
UnknownMerchant == "m0"
CustomerUids == {"c1", "c2"}
UnknownCustomer == "c0"
RefIds == {"r1", "r2"}

MerchantRow(m) == <<"Merchants", m>>
CustomerRow(m, c) == <<"Customers", m, c>>
CustomerKeys == {<<m, c>> : m \in MerchantIds, c \in CustomerUids}
Rows == {MerchantRow(m) : m \in MerchantIds} \cup {CustomerRow(k[1], k[2]) : k \in CustomerKeys}

\* a second merchant of the API, without customers
OtherMerchant == "m2"

InitMerchants == [m \in MerchantIds \cup {OtherMerchant} |-> InitPool]
InitCustomers == [k \in CustomerKeys |-> IF k[2] = "c1" THEN 1 ELSE 0]

\* PointsTransactionInput: the fields the ledger engine reads
\* (under a merchant_id that matches no row the customer_uid is never read: one
\* such customer_uid stands for all)
Inputs == {i \in [merchant_id : MerchantIds \cup {UnknownMerchant},
                  customer_uid : CustomerUids \cup {UnknownCustomer},
                  amount : 1..MaxAmount,
                  reference_id : RefIds] :
              i.merchant_id = UnknownMerchant => i.customer_uid = UnknownCustomer}

NoInput == [merchant_id |-> UnknownMerchant, customer_uid |-> UnknownCustomer,
            amount |-> 0, reference_id |-> "none"]

IdleTrx == [pc |-> "idle", op |-> "none", input |-> NoInput,
            merchantBalance |-> 0, pointsBefore |-> 0, pointsAfter |-> 0,
            wMerchants |-> {}, wCustomers |-> {}, wLedger |-> <<>>,
            err |-> "none"]

NoResult == [op |-> "none", input |-> NoInput, status |-> "none", code |-> "none", entry |-> <<>>]

\* `returned` shows a call's outcome in the state in which the call ends, and only there
Quiet == returned' = NoResult

\* PointsLedgerType / PointsTransactionStatus
CREDIT == "credit"
DEBIT == "debit"
SUCCESSFUL == "successful"

----------------------------------------------------------------------------
(* Row locks: SELECT ... FOR UPDATE waits while another transaction holds    *)
(* the row; a query that matches no row returns undefined and locks nothing. *)

\* faulty variant: SELECT without FOR UPDATE, which never waits for a lock holder
LockFreeAlways(t, row) == TRUE

LockFree(t, row) == rowLock[row] \in {NoTrx, t}

Active(t) == trx[t].pc # "idle"

\* throw inside the db.transaction callback: knex rolls the transaction back
Throw(t, code) == [trx[t] EXCEPT !.pc = "rollback", !.err = code]

\* An uncommitted Pointsledger row with this reference_id in another transaction:
\* the unique index makes the INSERT wait for that transaction to end.
RefInFlight(t, ref) ==
    \E u \in Trx \ {t} : \E i \in 1..Len(trx[u].wLedger) : trx[u].wLedger[i].reference_id = ref

\* faulty variant: a table without the unique index on reference_id
RefCommittedNever(ref) == FALSE

\* a committed Pointsledger row with this reference_id: the INSERT fails
RefCommitted(ref) == \E i \in 1..Len(Pointsledger) : Pointsledger[i].reference_id = ref

----------------------------------------------------------------------------
(* PointsService.creditPoints                                               *)

creditPoints(t, input) ==
    /\ trx[t].pc = "idle"
    /\ opsStarted < MaxOps
    /\ opsStarted' = opsStarted + 1
    /\ trx' = [trx EXCEPT ![t] = [IdleTrx EXCEPT !.pc = "c_lockMerchant", !.op = CREDIT, !.input = input]]
    /\ Quiet
    /\ UNCHANGED <<busVars, httpVars, customerStatus, merchantConfig, usersRewarded, increments>>
    /\ UNCHANGED <<Merchants, Customers, Pointsledger, rowLock>>

\* faulty variants of the balance check: no check at all / rejecting amount = balance
CreditInsufficientNever(merchantBalance, amount) == FALSE
CreditInsufficientOffByOne(merchantBalance, amount) == merchantBalance <= amount

\* the balance check of creditPoints, on the value read under the lock
CreditInsufficient(merchantBalance, amount) == merchantBalance < amount

\* 1. Get merchant and lock row for update; check the pool balance
CreditLockMerchant(t) ==
    LET m == trx[t].input.merchant_id IN
    /\ trx[t].pc = "c_lockMerchant"
    /\ IF m \notin DOMAIN Merchants
       THEN /\ trx' = [trx EXCEPT ![t] = Throw(t, "merchant_not_found")]
            /\ UNCHANGED rowLock
       ELSE /\ LockFree(t, MerchantRow(m))
            /\ rowLock' = [rowLock EXCEPT ![MerchantRow(m)] = t]
            /\ IF CreditInsufficient(Merchants[m], trx[t].input.amount)
               THEN trx' = [trx EXCEPT ![t] =
                                [Throw(t, "insufficient_merchant_points") EXCEPT !.merchantBalance = Merchants[m]]]
               ELSE trx' = [trx EXCEPT ![t].pc = "c_lockCustomer", ![t].merchantBalance = Merchants[m]]
    /\ Quiet
    /\ UNCHANGED <<busVars, httpVars, customerStatus, merchantConfig, usersRewarded, increments>>
    /\ UNCHANGED <<Merchants, Customers, Pointsledger, opsStarted>>

\* 2. Get customer and lock row for update
CreditLockCustomer(t) ==
    LET k == <<trx[t].input.merchant_id, trx[t].input.customer_uid>> IN
    /\ trx[t].pc = "c_lockCustomer"
    /\ IF k \notin DOMAIN Customers
       THEN /\ trx' = [trx EXCEPT ![t] = Throw(t, "customer_not_found")]
            /\ UNCHANGED rowLock
       ELSE /\ LockFree(t, CustomerRow(k[1], k[2]))
            /\ rowLock' = [rowLock EXCEPT ![CustomerRow(k[1], k[2])] = t]
            /\ trx' = [trx EXCEPT ![t].pc = "c_updMerchant",
                                  ![t].pointsBefore = Customers[k],
                                  ![t].pointsAfter = Customers[k] + trx[t].input.amount]
    /\ Quiet
    /\ UNCHANGED <<busVars, httpVars, customerStatus, merchantConfig, usersRewarded, increments>>
    /\ UNCHANGED <<Merchants, Customers, Pointsledger, opsStarted>>

\* point_balance: merchantBalance - amount
CreditMerchantBalance(merchantBalance, amount) == merchantBalance - amount

\* 3. Deduct from merchant balance (a write of this transaction, or a query error)
CreditUpdateMerchant(t) ==
    LET m == trx[t].input.merchant_id IN
    /\ trx[t].pc = "c_updMerchant"
    /\ \/ trx' = [trx EXCEPT ![t].pc = "c_updCustomer",
                             ![t].wMerchants = {<<m, CreditMerchantBalance(trx[t].merchantBalance, trx[t].input.amount)>>}]
       \/ trx' = [trx EXCEPT ![t] = Throw(t, "db_error")]
    /\ Quiet
    /\ UNCHANGED <<busVars, httpVars, customerStatus, merchantConfig, usersRewarded, increments>>
    /\ UNCHANGED <<Merchants, Customers, Pointsledger, rowLock, opsStarted>>

\* faulty variant: the customer update issued on db instead of trx (outside the transaction)
CreditUpdateCustomerOnDb(t) ==
    LET k == <<trx[t].input.merchant_id, trx[t].input.customer_uid>> IN
    /\ trx[t].pc = "c_updCustomer"
    /\ \/ /\ trx' = [trx EXCEPT ![t].pc = "c_insert"]
          /\ Customers' = [Customers EXCEPT ![k] = trx[t].pointsAfter]
       \/ /\ trx' = [trx EXCEPT ![t] = Throw(t, "db_error")]
          /\ UNCHANGED Customers
    /\ Quiet
    /\ UNCHANGED <<busVars, httpVars, customerStatus, merchantConfig, usersRewarded, increments>>
    /\ UNCHANGED <<Merchants, Pointsledger, rowLock, opsStarted>>

\* 4. Update customer balance
CreditUpdateCustomer(t) ==
    LET k == <<trx[t].input.merchant_id, trx[t].input.customer_uid>> IN
    /\ trx[t].pc = "c_updCustomer"
    /\ \/ trx' = [trx EXCEPT ![t].pc = "c_insert",
                             ![t].wCustomers = {<<k, trx[t].pointsAfter>>}]
       \/ trx' = [trx EXCEPT ![t] = Throw(t, "db_error")]
    /\ Quiet
    /\ UNCHANGED <<busVars, httpVars, customerStatus, merchantConfig, usersRewarded, increments>>
    /\ UNCHANGED <<Merchants, Customers, Pointsledger, rowLock, opsStarted>>

\* faulty variant: the row written with the balance before and after exchanged
LedgerRowSwapped(t, type) ==
    [merchant_id |-> trx[t].input.merchant_id,
     member_uid |-> trx[t].input.customer_uid,
     ledger_type |-> type,
     status |-> SUCCESSFUL,
     reference_id |-> trx[t].input.reference_id,
     points |-> trx[t].input.amount,
     points_balance_before |-> trx[t].pointsAfter,
     points_balance_after |-> trx[t].pointsBefore]

\* the row inserted into Pointsledger
LedgerRow(t, type) ==
    [merchant_id |-> trx[t].input.merchant_id,
     member_uid |-> trx[t].input.customer_uid,
     ledger_type |-> type,
     status |-> SUCCESSFUL,
     reference_id |-> trx[t].input.reference_id,
     points |-> trx[t].input.amount,
     points_balance_before |-> trx[t].pointsBefore,
     points_balance_after |-> trx[t].pointsAfter]

\* INSERT INTO Pointsledger ... RETURNING *: reference_id is UNIQUE
InsertLedger(t, type) ==
    /\ ~RefInFlight(t, trx[t].input.reference_id)
    /\ \/ /\ ~RefCommitted(trx[t].input.reference_id)
          /\ trx' = [trx EXCEPT ![t].pc = "commit",
                                ![t].wLedger = <<LedgerRow(t, type)>>]
       \/ /\ RefCommitted(trx[t].input.reference_id)
          /\ trx' = [trx EXCEPT ![t] = Throw(t, "unique_violation")]
       \/ trx' = [trx EXCEPT ![t] = Throw(t, "db_error")]

\* 3. Create ledger entry
CreditInsertLedger(t) ==
    /\ trx[t].pc = "c_insert"
    /\ InsertLedger(t, CREDIT)
    /\ Quiet
    /\ UNCHANGED <<busVars, httpVars, customerStatus, merchantConfig, usersRewarded, increments>>
    /\ UNCHANGED <<Merchants, Customers, Pointsledger, rowLock, opsStarted>>

----------------------------------------------------------------------------
(* PointsService.debitPoints                                                *)

\* faulty variant: debitPoints locking the customer row before the merchant row
DebitLockOrderReversed == <<"d_lockCustomer", "d_lockMerchant">>

\* the order of the two SELECT ... FOR UPDATE queries of debitPoints
DebitLockOrder == <<"d_lockMerchant", "d_lockCustomer">>

debitPoints(t, input) ==
    /\ trx[t].pc = "idle"
    /\ opsStarted < MaxOps
    /\ opsStarted' = opsStarted + 1
    /\ trx' = [trx EXCEPT ![t] = [IdleTrx EXCEPT !.pc = DebitLockOrder[1], !.op = DEBIT, !.input = input]]
    /\ Quiet
    /\ UNCHANGED <<busVars, httpVars, customerStatus, merchantConfig, usersRewarded, increments>>
    /\ UNCHANGED <<Merchants, Customers, Pointsledger, rowLock>>

\* faulty variant of the balance check: no check at all
DebitInsufficientNever(pointsBefore, amount) == FALSE

\* the balance check of debitPoints, on the value read under the lock
DebitInsufficient(pointsBefore, amount) == pointsBefore < amount

\* with both rows read: check the customer balance, compute pointsAfter
DebitCheck(rec) ==
    IF DebitInsufficient(rec.pointsBefore, rec.input.amount)
    THEN [rec EXCEPT !.pc = "rollback", !.err = "insufficient_points"]
    ELSE [rec EXCEPT !.pc = "d_updMerchant", !.pointsAfter = rec.pointsBefore - rec.input.amount]

\* what follows a lock query: the other lock query, or the check
DebitProceed(rec) ==
    IF rec.pc = DebitLockOrder[1] THEN [rec EXCEPT !.pc = DebitLockOrder[2]] ELSE DebitCheck(rec)

\* 1. Get merchant and lock row for update
DebitLockMerchant(t) ==
    LET m == trx[t].input.merchant_id IN
    /\ trx[t].pc = "d_lockMerchant"
    /\ IF m \notin DOMAIN Merchants
       THEN /\ trx' = [trx EXCEPT ![t] = Throw(t, "merchant_not_found")]
            /\ UNCHANGED rowLock
       ELSE /\ LockFree(t, MerchantRow(m))
            /\ rowLock' = [rowLock EXCEPT ![MerchantRow(m)] = t]
            /\ trx' = [trx EXCEPT ![t] = DebitProceed([trx[t] EXCEPT !.merchantBalance = Merchants[m]])]
    /\ Quiet
    /\ UNCHANGED <<busVars, httpVars, customerStatus, merchantConfig, usersRewarded, increments>>
    /\ UNCHANGED <<Merchants, Customers, Pointsledger, opsStarted>>

\* 2. Get customer and lock row for update; check the customer balance
DebitLockCustomer(t) ==
    LET k == <<trx[t].input.merchant_id, trx[t].input.customer_uid>> IN
    /\ trx[t].pc = "d_lockCustomer"
    /\ IF k \notin DOMAIN Customers
       THEN /\ trx' = [trx EXCEPT ![t] = Throw(t, "customer_not_found")]
            /\ UNCHANGED rowLock
       ELSE /\ LockFree(t, CustomerRow(k[1], k[2]))
            /\ rowLock' = [rowLock EXCEPT ![CustomerRow(k[1], k[2])] = t]
            /\ trx' = [trx EXCEPT ![t] = DebitProceed([trx[t] EXCEPT !.pointsBefore = Customers[k]])]
    /\ Quiet
    /\ UNCHANGED <<busVars, httpVars, customerStatus, merchantConfig, usersRewarded, increments>>
    /\ UNCHANGED <<Merchants, Customers, Pointsledger, opsStarted>>

\* faulty variant: the redeemed points are not returned to the pool
DebitMerchantBalanceDropped(merchantBalance, amount) == merchantBalance

\* point_balance: Number(merchant.point_balance) + amount
DebitMerchantBalance(merchantBalance, amount) == merchantBalance + amount

\* 3. Return points to merchant balance
DebitUpdateMerchant(t) ==
    LET m == trx[t].input.merchant_id IN
    /\ trx[t].pc = "d_updMerchant"
    /\ \/ trx' = [trx EXCEPT ![t].pc = "d_updCustomer",
                             ![t].wMerchants = {<<m, DebitMerchantBalance(trx[t].merchantBalance, trx[t].input.amount)>>}]
       \/ trx' = [trx EXCEPT ![t] = Throw(t, "db_error")]
    /\ Quiet
    /\ UNCHANGED <<busVars, httpVars, customerStatus, merchantConfig, usersRewarded, increments>>
    /\ UNCHANGED <<Merchants, Customers, Pointsledger, rowLock, opsStarted>>

\* 4. Update customer balance
DebitUpdateCustomer(t) ==
    LET k == <<trx[t].input.merchant_id, trx[t].input.customer_uid>> IN
    /\ trx[t].pc = "d_updCustomer"
    /\ \/ trx' = [trx EXCEPT ![t].pc = "d_insert",
                             ![t].wCustomers = {<<k, trx[t].pointsAfter>>}]
       \/ trx' = [trx EXCEPT ![t] = Throw(t, "db_error")]
    /\ Quiet
    /\ UNCHANGED <<busVars, httpVars, customerStatus, merchantConfig, usersRewarded, increments>>
    /\ UNCHANGED <<Merchants, Customers, Pointsledger, rowLock, opsStarted>>

\* 3. Create ledger entry
DebitInsertLedger(t) ==
    /\ trx[t].pc = "d_insert"
    /\ InsertLedger(t, DEBIT)
    /\ Quiet
    /\ UNCHANGED <<busVars, httpVars, customerStatus, merchantConfig, usersRewarded, increments>>
    /\ UNCHANGED <<Merchants, Customers, Pointsledger, rowLock, opsStarted>>

----------------------------------------------------------------------------
(* db.transaction: commit when the callback returns, roll back when it       *)
(* throws; either way the transaction's row locks are released.              *)

ReleaseLocks(t) == [r \in Rows |-> IF rowLock[r] = t THEN NoTrx ELSE rowLock[r]]

ApplyWrites(table, writes) ==
    [k \in DOMAIN table |->
        IF \E w \in writes : w[1] = k THEN (CHOOSE w \in writes : w[1] = k)[2] ELSE table[k]]

\* faulty variant: the row written over the customer's earlier rows
InsertRowsOverwriting(ledger, rows) ==
    LET Kept(e) == \A i \in 1..Len(rows) :
                       <<e.merchant_id, e.member_uid>> # <<rows[i].merchant_id, rows[i].member_uid>>
    IN SelectSeq(ledger, Kept) \o rows

\* the rows a transaction inserted become part of the table when it commits
InsertRows(ledger, rows) == ledger \o rows

Commit(t) ==
    /\ trx[t].pc = "commit"
    /\ Merchants' = ApplyWrites(Merchants, trx[t].wMerchants)
    /\ Customers' = ApplyWrites(Customers, trx[t].wCustomers)
    /\ Pointsledger' = InsertRows(Pointsledger, trx[t].wLedger)
    /\ rowLock' = ReleaseLocks(t)
    /\ returned' = [op |-> trx[t].op, input |-> trx[t].input, status |-> "ok", code |-> "none", entry |-> trx[t].wLedger]
    /\ trx' = [trx EXCEPT ![t] = IdleTrx]
    /\ UNCHANGED opsStarted
    /\ UNCHANGED <<busVars, httpVars, customerStatus, merchantConfig, usersRewarded, increments>>

\* the error the callback threw is what the caller of creditPoints/debitPoints gets
Rethrow(err) == err

Rollback(t) ==
    /\ trx[t].pc = "rollback"
    /\ rowLock' = ReleaseLocks(t)
    /\ returned' = [op |-> trx[t].op, input |-> trx[t].input, status |-> "error", code |-> Rethrow(trx[t].err), entry |-> <<>>]
    /\ trx' = [trx EXCEPT ![t] = IdleTrx]
    /\ UNCHANGED <<Merchants, Customers, Pointsledger, opsStarted>>
    /\ UNCHANGED <<busVars, httpVars, customerStatus, merchantConfig, usersRewarded, increments>>

----------------------------------------------------------------------------

\* the ids of the rows of WaysToEarn
Rules == {1, 2}

\* the columns of a Merchants row that updateMerchantConfig names, point_balance apart
\* (whatsapp stands for the social handles), as numbers
MerchantColumns == {"merchant_id", "password", "pin_hash", "id", "minimum_threshold_amount",
                    "whatsapp", "updated_at", "minimum_threshold_updated_at"}

InitMerchantConfig == [m \in MerchantIds \cup {OtherMerchant} |-> [c \in MerchantColumns |-> 0]]

----------------------------------------------------------------------------
\* MerchantService.updateMerchantConfig

\* faulty variant: the list of protected fields without point_balance
forbiddenFieldsNoBalance == {"merchant_id", "password", "pin_hash", "id"}

\* const forbiddenFields
forbiddenFields == {"merchant_id", "password", "pin_hash", "point_balance", "id"}

\* the keys a request body can name: every protected field, and two of the
\* configuration fields
UpdateKeys == {"merchant_id", "password", "pin_hash", "point_balance", "id",
               "minimum_threshold_amount", "whatsapp"}

\* the values a body gives: none equal to the balance of a merchant
UpdateValues == {0, MaxAmount + 1}

\* the bodies followed: up to two keys
Updates == UNION {[K -> UpdateValues] : K \in {S \in SUBSET UpdateKeys : Cardinality(S) <= 2}}

\* updateData: the updates, updated_at, and minimum_threshold_updated_at when the
\* threshold is among the updates
UpdateData(updates) ==
    LET stamps == IF "minimum_threshold_amount" \in DOMAIN updates
                  THEN {"updated_at", "minimum_threshold_updated_at"}
                  ELSE {"updated_at"}
    IN [c \in DOMAIN updates \cup stamps |-> IF c \in stamps THEN now ELSE updates[c]]

\* UPDATE "Merchants" SET ... : the columns updateData names get its values
UpdateRow(row, updateData) ==
    [c \in DOMAIN row |-> IF c \in DOMAIN updateData THEN updateData[c] ELSE row[c]]

\* updateMerchantConfig: the test of the keys, then one UPDATE of the merchant's row,
\* which waits for a transaction holding the row's lock
updateMerchantConfig(merchant_id, updates) ==
    LET attemptedForbidden == DOMAIN updates \cap forbiddenFields
        updateData == UpdateData(updates)
        call == [op |-> "updateMerchantConfig", input |-> NoInput, entry |-> <<>>]
    IN
    /\ opsStarted < MaxOps
    /\ opsStarted' = opsStarted + 1
    /\ IF attemptedForbidden # {}
       THEN /\ returned' = call @@ [status |-> "error", code |-> "forbidden_field_update"]
            /\ UNCHANGED <<Merchants, merchantConfig, usersRewarded, increments>>
       ELSE /\ rowLock[MerchantRow(merchant_id)] = NoTrx
            /\ returned' = call @@ [status |-> "ok", code |-> "none"]
            /\ merchantConfig' = [merchantConfig EXCEPT
                   ![merchant_id] = UpdateRow(merchantConfig[merchant_id], updateData)]
            /\ Merchants' = IF "point_balance" \in DOMAIN updateData
                            THEN [Merchants EXCEPT ![merchant_id] = updateData["point_balance"]]
                            ELSE Merchants
    /\ UNCHANGED <<Customers, Pointsledger, rowLock, trx, customerStatus, usersRewarded, increments>>
    /\ UNCHANGED <<busVars, httpVars>>

InitLedgerStore ==
    /\ Merchants = InitMerchants
    /\ Customers = InitCustomers
    /\ Pointsledger = <<>>
    /\ rowLock = [r \in Rows |-> NoTrx]
    /\ trx = [t \in Trx |-> IdleTrx]
    /\ returned = NoResult
    /\ opsStarted = 0
    /\ customerStatus = [k \in CustomerKeys |-> "active"]
    /\ merchantConfig = InitMerchantConfig
    /\ usersRewarded = [rule \in Rules |-> 0]
    /\ increments = << >>

TrxStep(t) ==
    \/ CreditLockMerchant(t)
    \/ CreditLockCustomer(t)
    \/ CreditUpdateMerchant(t)
    \/ CreditUpdateCustomer(t)
    \/ CreditInsertLedger(t)
    \/ DebitLockMerchant(t)
    \/ DebitLockCustomer(t)
    \/ DebitUpdateMerchant(t)
    \/ DebitUpdateCustomer(t)
    \/ DebitInsertLedger(t)
    \/ Commit(t)
    \/ Rollback(t)

NextLedger ==
    \/ \E t \in Trx, input \in Inputs : creditPoints(t, input)
    \/ \E t \in Trx, input \in Inputs : debitPoints(t, input)
    \/ \E t \in Trx : TrxStep(t)

\* the transfers followed next to the configuration updates
ConfigInputs == {i \in Inputs : i.merchant_id = "m1" /\ i.customer_uid = "c1" /\ i.reference_id = "r1"}

\* the ledger engine next to the configuration updates of its merchant
NextConfig ==
    \/ \E t \in Trx, input \in ConfigInputs : creditPoints(t, input)
    \/ \E t \in Trx, input \in ConfigInputs : debitPoints(t, input)
    \/ \E t \in Trx : TrxStep(t)
    \/ \E m \in MerchantIds, updates \in Updates : updateMerchantConfig(m, updates)

----------------------------------------------------------------------------
(* RedisEventService: request/reply over Redis pub/sub                      *)

MaxReq == 2
MaxListeners == 2

DEFAULT_TIMEOUT_MS == 10000

EVENTS_CHANNEL == "rewrd:events"
RESULTS_CHANNEL == "rewrd:results"

\* crypto.randomUUID(): a fresh id per call
CorrIds == 1..MaxReq

\* the promise returned by requestReply
NoFuture == [state |-> "none", kind |-> "none", message |-> "", code |-> "", statusCode |-> 0, data |-> ""]
PendingFuture == [NoFuture EXCEPT !.state = "pending"]
Resolved(data) == [NoFuture EXCEPT !.state = "resolved", !.kind = "value", !.data = data]
AppError(message, statusCode, code) ==
    [NoFuture EXCEPT !.state = "rejected", !.kind = "AppError", !.message = message,
                     !.statusCode = statusCode, !.code = code]
PlainError(message) == [NoFuture EXCEPT !.state = "rejected", !.kind = "Error", !.message = message]

\* the AppError of the timeout callback
TimeoutError(eventType) ==
    AppError("Request to dashboard backend timed out (" \o eventType \o ")", 504, "event_timeout")

\* faulty variant: a promise whose resolve/reject overwrite an earlier outcome
SettleOverwrite(f, outcome) == outcome

\* resolve(...) / reject(...) of a promise: the first call settles it, later calls
\* are ignored
Settle(f, outcome) == IF f.state = "pending" THEN outcome ELSE f

\* x || fallback, for a string and for a number
OrElse(x, fallback) == IF x = "" THEN fallback ELSE x
OrElseNum(x, fallback) == IF x = 0 THEN fallback ELSE x

\* EventResult.error as the remote side may send it: absent (or without fields), or
\* with message, code and statusCode
NoRemoteError == [message |-> "", code |-> "", statusCode |-> 0]
RemoteErrors == {NoRemoteError,
                 [message |-> "Insufficient points balance", code |-> "insufficient_points",
                  statusCode |-> 400]}

\* the EventResult messages that can arrive on a channel (0: an id of another
\* instance); error is read only when success is false, data only when it is true
EventResults ==
    {[correlationId |-> id, success |-> TRUE, data |-> "ledgerEntry", error |-> NoRemoteError] :
        id \in {0} \cup CorrIds}
    \cup {[correlationId |-> id, success |-> FALSE, data |-> "", error |-> e] :
        id \in {0} \cup CorrIds, e \in RemoteErrors}

\* a raw message: text that JSON.parse turns into an EventResult, or text on which
\* JSON.parse (or the read of its fields) throws
Garbage == [json |-> FALSE,
            result |-> [correlationId |-> 0, success |-> FALSE, data |-> "", error |-> NoRemoteError]]
Messages == [json : {TRUE}, result : EventResults] \cup {Garbage}

\* logger.warn / logger.error lines of the result listener
NoLog == [level |-> "none", msg |-> "", correlationId |-> 0]
LogLine(level, msg, id) == [level |-> level, msg |-> msg, correlationId |-> id]

\* the part of the service state that handleResult and the timers work on
Waiters == [pendingRequests |-> pendingRequests, future |-> future, timer |-> timer,
            logged |-> NoLog]

\* faulty variant: pendingRequests.delete leaving the entry in the map
RemoveWaiterNever(p, id) == p

RemoveWaiter(p, id) == [c \in DOMAIN p \ {id} |-> p[c]]

\* faulty variant: handleResult without the lookup guard settling whatever id the reply names
HandleUnknown(w, res) ==
    IF res.correlationId \in CorrIds /\ w.future[res.correlationId].state # "none"
    THEN [w EXCEPT !.future[res.correlationId] = Resolved(res.data)]
    ELSE w

\* handleResult, reply without a waiter: logged and dropped
DropResult(w, res) ==
    [w EXCEPT !.logged = LogLine("warn", "Received result for unknown correlationId", res.correlationId)]

\* faulty variant: the timeout callback rejecting without removing the waiter
OnTimeoutKeepWaiter(w, id) ==
    [w EXCEPT !.timer[id] = "fired",
              !.future[id] = Settle(w.future[id],
                  TimeoutError(published[id].type))]

\* faulty variant: the timeout callback removing the waiter without rejecting the promise
OnTimeoutNoReject(w, id) ==
    [w EXCEPT !.timer[id] = "fired", !.pendingRequests = RemoveWaiter(w.pendingRequests, id)]

\* the setTimeout callback of requestReply
OnTimeout(w, id) ==
    [w EXCEPT !.timer[id] = "fired",
              !.pendingRequests = RemoveWaiter(w.pendingRequests, id),
              !.future[id] = Settle(w.future[id],
                  TimeoutError(published[id].type))]

\* clearTimeout(timer): an armed timer will not fire; any other is left as it is
ClearTimeout(t) == IF t = "armed" THEN "cleared" ELSE t

\* faulty variant: handleResult settling the oldest waiter instead of the waiter the
\* reply names
HandleResultOldest(w, res) ==
    IF res.correlationId \notin DOMAIN w.pendingRequests
    THEN DropResult(w, res)
    ELSE LET id == CHOOSE c \in DOMAIN w.pendingRequests :
                       \A d \in DOMAIN w.pendingRequests : c <= d
             pending == w.pendingRequests[id] IN
         [w EXCEPT !.timer[pending.timer] = ClearTimeout(w.timer[pending.timer]),
                   !.pendingRequests = RemoveWaiter(w.pendingRequests, id),
                   !.future[pending.future] =
                       IF res.success
                       THEN Settle(w.future[pending.future], Resolved(res.data))
                       ELSE Settle(w.future[pending.future],
                                AppError(OrElse(res.error.message, "Remote processing failed"),
                                         OrElseNum(res.error.statusCode, 500),
                                         OrElse(res.error.code, "remote_error")))]

\* RedisEventService.handleResult
HandleResult(w, res) ==
    LET id == res.correlationId IN
    IF id \notin DOMAIN w.pendingRequests
    THEN DropResult(w, res)
    ELSE LET pending == w.pendingRequests[id] IN
         [w EXCEPT !.timer[pending.timer] = ClearTimeout(w.timer[pending.timer]),
                   !.pendingRequests = RemoveWaiter(w.pendingRequests, id),
                   !.future[pending.future] =
                       IF res.success
                       THEN Settle(w.future[pending.future], Resolved(res.data))
                       ELSE Settle(w.future[pending.future],
                                AppError(OrElse(res.error.message, "Remote processing failed"),
                                         OrElseNum(res.error.statusCode, 500),
                                         OrElse(res.error.code, "remote_error")))]

\* every registered "message" listener runs on the message, one after the other
RECURSIVE Listeners(_, _, _)
Listeners(n, w, res) == IF n = 0 THEN w ELSE Listeners(n - 1, HandleResult(w, res), res)

SetWaiters(w) ==
    /\ pendingRequests' = w.pendingRequests
    /\ future' = w.future
    /\ timer' = w.timer
    /\ logged' = w.logged

\* RedisEventService.initialize
initialize ==
    /\ ~initialized
    /\ listeners < MaxListeners
    /\ listeners' = listeners + 1
    /\ initialized' = TRUE
    /\ UNCHANGED <<pendingRequests, future, timer, publish, published, forgotten, answers, remote>>
    /\ logged' = NoLog
    /\ UNCHANGED <<ledgerVars, httpVars>>

\* redisSubscriber.on("message", ...): a message arrives on a subscribed channel
OnMessage(channel, message) ==
    /\ listeners > 0
    /\ IF channel # RESULTS_CHANNEL
       THEN /\ UNCHANGED <<pendingRequests, future, timer>>
            /\ logged' = NoLog
       ELSE IF ~message.json
       THEN /\ UNCHANGED <<pendingRequests, future, timer>>
            /\ logged' = LogLine("error", "Failed to parse event result", 0)
       ELSE SetWaiters(Listeners(listeners, Waiters, message.result))
    /\ UNCHANGED <<initialized, listeners, publish, published, forgotten, answers, remote>>
    /\ UNCHANGED <<ledgerVars, httpVars>>

\* RedisEventService.requestReply, up to the call of redisPublisher.publish
requestReply(eventType, data, timeoutMs) ==
    LET correlationId == Len(published) + 1 IN
    /\ correlationId \in CorrIds
    /\ future' = [future EXCEPT ![correlationId] = PendingFuture]
    /\ timer' = [timer EXCEPT ![correlationId] = "armed"]
    /\ pendingRequests' = [c \in DOMAIN pendingRequests \cup {correlationId} |->
                              IF c = correlationId
                              THEN [future |-> correlationId, timer |-> correlationId]
                              ELSE pendingRequests[c]]
    /\ publish' = [publish EXCEPT ![correlationId] = "inflight"]
    /\ published' = Append(published, [correlationId |-> correlationId, type |-> eventType,
                                       data |-> data,
                                       channel |-> EVENTS_CHANNEL, timeoutMs |-> timeoutMs])
    /\ UNCHANGED <<initialized, listeners, forgotten, answers, remote>>
    /\ logged' = NoLog
    /\ UNCHANGED <<ledgerVars, httpVars>>

\* the deadline elapses
Timeout(id) ==
    /\ timer[id] = "armed"
    /\ SetWaiters(OnTimeout(Waiters, id))
    /\ UNCHANGED <<initialized, listeners, publish, published, forgotten, answers, remote>>
    /\ UNCHANGED <<ledgerVars, httpVars>>

\* faulty variant: the .then of publish without the subscriberCount === 0 branch
PublishResolvedIgnoringCount(id, subscriberCount) ==
    /\ publish[id] = "inflight"
    /\ publish' = [publish EXCEPT ![id] = "settled"]
    /\ UNCHANGED <<pendingRequests, future, timer>>
    /\ UNCHANGED <<initialized, listeners, published, forgotten, answers, remote>>
    /\ logged' = NoLog
    /\ UNCHANGED <<ledgerVars, httpVars>>

\* .then((subscriberCount) => ...) of the publish promise
PublishResolved(id, subscriberCount) ==
    /\ publish[id] = "inflight"
    /\ publish' = [publish EXCEPT ![id] = "settled"]
    /\ IF subscriberCount = 0
       THEN /\ timer' = [timer EXCEPT ![id] = ClearTimeout(timer[id])]
            /\ pendingRequests' = RemoveWaiter(pendingRequests, id)
            /\ future' = [future EXCEPT ![id] = Settle(future[id],
                   AppError("No subscribers available to process the event. Dashboard backend may be offline.",
                            503, "no_subscribers"))]
       ELSE UNCHANGED <<pendingRequests, future, timer>>
    /\ UNCHANGED <<initialized, listeners, published, forgotten, answers, remote>>
    /\ logged' = NoLog
    /\ UNCHANGED <<ledgerVars, httpVars>>

\* .catch((err) => ...) of the publish promise
PublishRejected(id) ==
    /\ publish[id] = "inflight"
    /\ publish' = [publish EXCEPT ![id] = "settled"]
    /\ timer' = [timer EXCEPT ![id] = ClearTimeout(timer[id])]
    /\ pendingRequests' = RemoveWaiter(pendingRequests, id)
    /\ future' = [future EXCEPT ![id] = Settle(future[id],
           AppError("Failed to publish event to Redis", 503, "redis_publish_error"))]
    /\ UNCHANGED <<initialized, listeners, published, forgotten, answers, remote>>
    /\ logged' = NoLog
    /\ UNCHANGED <<ledgerVars, httpVars>>

\* faulty variant: shutdown rejecting the waiters without clearing their timers
shutdownKeepTimers ==
    /\ UNCHANGED timer
    /\ future' = [id \in CorrIds |->
                    IF id \in DOMAIN pendingRequests
                    THEN Settle(future[id], PlainError("Service shutting down"))
                    ELSE future[id]]
    /\ pendingRequests' = << >>
    /\ initialized' = FALSE
    /\ UNCHANGED <<listeners, publish, published, forgotten, answers, remote>>
    /\ logged' = NoLog
    /\ UNCHANGED <<ledgerVars, httpVars>>

\* RedisEventService.shutdown
shutdown ==
    /\ timer' = [id \in CorrIds |->
                    IF id \in DOMAIN pendingRequests THEN ClearTimeout(timer[id]) ELSE timer[id]]
    /\ future' = [id \in CorrIds |->
                    IF id \in DOMAIN pendingRequests
                    THEN Settle(future[id], PlainError("Service shutting down"))
                    ELSE future[id]]
    /\ pendingRequests' = << >>
    /\ initialized' = FALSE
    /\ UNCHANGED <<listeners, publish, published, forgotten, answers, remote>>
    /\ logged' = NoLog
    /\ UNCHANGED <<ledgerVars, httpVars>>

\* the number of fireAndForget calls followed
MaxForget == 1

\* RedisEventService.fireAndForget, up to `await redisPublisher.publish(...)`: the
\* envelope is handed to publish; nothing is registered
fireAndForget(eventType) ==
    /\ Len(forgotten) < MaxForget
    /\ forgotten' = Append(forgotten,
           [type |-> eventType, channel |-> EVENTS_CHANNEL, publish |-> "inflight",
            promise |-> "pending"])
    /\ UNCHANGED <<pendingRequests, future, timer, initialized, listeners, publish, published, answers, remote>>
    /\ logged' = NoLog
    /\ UNCHANGED <<ledgerVars, httpVars>>

\* faulty variant: the publish error rethrown to the caller
ForgetPublishRethrown(i) ==
    /\ i <= Len(forgotten)
    /\ forgotten[i].publish = "inflight"
    /\ forgotten' = [forgotten EXCEPT ![i].publish = "settled", ![i].promise = "rejected"]
    /\ UNCHANGED <<pendingRequests, future, timer, initialized, listeners, publish, published, answers, remote>>
    /\ logged' = LogLine("error", "Failed to publish fire-and-forget event", 0)
    /\ UNCHANGED <<ledgerVars, httpVars>>

\* fireAndForget after the await, publish fulfilled with any subscriber count: a debug
\* line, and the function returns
ForgetPublishResolved(i, subscriberCount) ==
    /\ i <= Len(forgotten)
    /\ forgotten[i].publish = "inflight"
    /\ forgotten' = [forgotten EXCEPT ![i].publish = "settled", ![i].promise = "fulfilled"]
    /\ UNCHANGED <<pendingRequests, future, timer, initialized, listeners, publish, published, answers, remote>>
    /\ logged' = NoLog
    /\ UNCHANGED <<ledgerVars, httpVars>>

\* fireAndForget after the await, publish rejected: the catch block logs the error
\* and the function returns
ForgetPublishRejected(i) ==
    /\ i <= Len(forgotten)
    /\ forgotten[i].publish = "inflight"
    /\ forgotten' = [forgotten EXCEPT ![i].publish = "settled", ![i].promise = "fulfilled"]
    /\ UNCHANGED <<pendingRequests, future, timer, initialized, listeners, publish, published, answers, remote>>
    /\ logged' = LogLine("error", "Failed to publish fire-and-forget event", 0)
    /\ UNCHANGED <<ledgerVars, httpVars>>

\* MESSAGES.ERROR.COMMON.INTERNAL_SERVER_ERROR
INTERNAL_SERVER_ERROR == "Internal Server Error"

\* the body errorHandler sends
ErrorJson(message, code, requestId) ==
    [status |-> FALSE, message |-> message,
     error |-> [code |-> code, request_id |-> requestId, description |-> message]]

\* faulty variant: errorHandler answering every error as the generic internal error
errorHandlerGeneric(err, requestId, production) ==
    [status |-> 500, body |-> ErrorJson(INTERNAL_SERVER_ERROR, "internal_server_error", requestId)]

\* errorHandler: an AppError is answered with its own status, message and code, any
\* other error as internal_server_error, with its message hidden in production
errorHandler(err, requestId, production) ==
    IF err.kind = "AppError"
    THEN [status |-> err.statusCode, body |-> ErrorJson(err.message, err.code, requestId)]
    ELSE [status |-> 500,
          body |-> ErrorJson(IF production THEN INTERNAL_SERVER_ERROR ELSE err.message,
                             "internal_server_error", requestId)]

NoAnswer == [status |-> 0, body |-> ""]

\* the controller of a points route whose service call awaits requestReply: the
\* promise is resolved and the controller answers 200 with the data, or it is
\* rejected, the service rethrows, the controller passes the error to next and
\* errorHandler answers
AnswerRequest(id, production) ==
    /\ id \in CorrIds
    /\ future[id].state \in {"resolved", "rejected"}
    /\ answers[id] = NoAnswer
    /\ answers' = [answers EXCEPT ![id] =
           IF future[id].state = "resolved"
           THEN [status |-> 200,
                 body |-> [status |-> TRUE, message |-> "Points credited successfully",
                           data |-> future[id].data]]
           ELSE errorHandler(future[id], ToString(id), production)]
    /\ UNCHANGED <<pendingRequests, future, timer, initialized, listeners, publish, published, forgotten,
                   remote>>
    /\ logged' = NoLog
    /\ UNCHANGED <<ledgerVars, httpVars>>

\* the PointsTransactionInput a controller hands to the delegated PointsService
DelegatedInput(merchant_id, customer_uid, amount, reference_id) ==
    [merchant_id |-> merchant_id, customer_uid |-> customer_uid, amount |-> amount,
     transaction_type |-> "api", reference_id |-> reference_id, title |-> "Points",
     narration |-> "narration", order_id |-> "order", metadata |-> "metadata"]

\* faulty variant: the payload without the reference_id of the input
CreditDataNoReference(input) ==
    [merchant_id |-> input.merchant_id, customer_uid |-> input.customer_uid,
     amount |-> input.amount, transaction_type |-> input.transaction_type,
     reference_id |-> "", title |-> input.title,
     narration |-> input.narration, order_id |-> input.order_id]

\* the data creditPoints puts in the points.credit event
CreditData(input) ==
    [merchant_id |-> input.merchant_id, customer_uid |-> input.customer_uid,
     amount |-> input.amount, transaction_type |-> input.transaction_type,
     reference_id |-> input.reference_id, title |-> input.title,
     narration |-> input.narration, order_id |-> input.order_id]

\* the data debitPoints puts in the points.redeem event
DebitData(input) ==
    [merchant_id |-> input.merchant_id, customer_uid |-> input.customer_uid,
     amount |-> input.amount, transaction_type |-> input.transaction_type,
     reference_id |-> input.reference_id, title |-> input.title,
     narration |-> input.narration, order_id |-> input.order_id,
     metadata |-> input.metadata]

\* the input of the requests followed for the event service alone
BusInput == DelegatedInput("m1", "c1", 1, "r1")

\* what the dashboard backend did with an event: nothing yet, received it, handled it
\* (applied or refused) with its EventResult to send, sent the EventResult
NoRemote == [state |-> "none", applied |-> FALSE,
             reply |-> [correlationId |-> 0, success |-> FALSE, data |-> "", error |-> NoRemoteError]]

\* get pendingCount(): this.pendingRequests.size
pendingCount == Cardinality(DOMAIN pendingRequests)

InitEventService ==
    /\ pendingRequests = << >>
    /\ initialized = FALSE
    /\ listeners = 0
    /\ future = [id \in CorrIds |-> NoFuture]
    /\ timer = [id \in CorrIds |-> "none"]
    /\ publish = [id \in CorrIds |-> "none"]
    /\ published = << >>
    /\ logged = NoLog
    /\ forgotten = << >>
    /\ answers = [id \in CorrIds |-> NoAnswer]
    /\ remote = [id \in CorrIds |-> NoRemote]

NextBus ==
    \/ initialize
    \/ requestReply("points.credit", CreditData(BusInput), DEFAULT_TIMEOUT_MS)
    \/ \E id \in CorrIds : Timeout(id)
    \/ \E id \in CorrIds, n \in {0, 1} : PublishResolved(id, n)
    \/ \E id \in CorrIds : PublishRejected(id)
    \/ \E message \in Messages : OnMessage(RESULTS_CHANNEL, message)
    \/ OnMessage(EVENTS_CHANNEL, Garbage)
    \/ shutdown

\* the event service with the controllers that await its replies
NextBusHttp ==
    \/ NextBus
    \/ \E id \in CorrIds, production \in BOOLEAN : AnswerRequest(id, production)

\* the event service with fire-and-forget events beside the request/reply traffic
NextBusForget ==
    \/ NextBus
    \/ fireAndForget("points.credit")
    \/ \E i \in 1..MaxForget, n \in {0, 1} : ForgetPublishResolved(i, n)
    \/ \E i \in 1..MaxForget : ForgetPublishRejected(i)

----------------------------------------------------------------------------
(* POST /points/credit and POST /points/redeem:                             *)
(* requireIdempotency -> validateRequest -> controller -> errorHandler      *)

MaxHttp == 3
MaxTicks == 2

\* TTL for idempotency keys (24 hours in milliseconds)
IDEMPOTENCY_TTL == 24 * 60 * 60 * 1000

\* Idempotency-Key header values, as sequences of characters (<< >>: no header)
HeaderValues == {<< >>, <<"k">>, <<"k", " ">>}

\* the character class [a-zA-Z0-9_-]
KeyChars ==
    {"a", "b", "c", "d", "e", "f", "g", "h", "i", "j", "k", "l", "m", "n", "o", "p", "q", "r", "s", "t", "u", "v", "w", "x", "y", "z"}
    \cup {"A", "B", "C", "D", "E", "F", "G", "H", "I", "J", "K", "L", "M", "N", "O", "P", "Q", "R", "S", "T", "U", "V", "W", "X", "Y", "Z"}
    \cup {"0", "1", "2", "3", "4", "5", "6", "7", "8", "9"}
    \cup {"_", "-"}

\* faulty variant: the key format is not checked
KeyPatternAny(key) == TRUE

\* keyPattern.test(idempotencyKey): /^[a-zA-Z0-9_-]{1,100}$/
KeyPattern(key) == Len(key) \in 1..100 /\ \A i \in 1..Len(key) : key[i] \in KeyChars

\* the characters of a merchant id
IdChars(merchant_id) == IF merchant_id = "m1" THEN <<"m", "1">> ELSE <<"m", "2">>

\* `${id}:${idempotencyKey}` as a string
ScopedString(id, key) == id \o <<":">> \o key

\* faulty variant: the key used without the merchant id
ScopedKeyUnscoped(merchant_id, key) == key

\* const scopedKey = `${req.merchant?.id}:${idempotencyKey}`
ScopedKey(merchant_id, key) == ScopedString(IdChars(merchant_id), key)

\* faulty variant: a record never expires on lookup
ExpiredNever(age) == FALSE

\* faulty variant: a record exactly IDEMPOTENCY_TTL old counted as expired
ExpiredInclusive(age) == age >= IDEMPOTENCY_TTL

\* age > IDEMPOTENCY_TTL
Expired(age) == age > IDEMPOTENCY_TTL

Endpoints == {"credit", "redeem"}

\* the requests a client can send: the body fields the schema and the controller read
HttpRequests == [endpoint : Endpoints, merchant_id : MerchantIds, key : HeaderValues,
                 customer_uid : {"c1"}, points : 0..(MaxAmount - 1)]

\* the response body: res.json({status: true, message, data: ledger}) of a controller,
\* or the body errorHandler builds from an AppError
SuccessBody(message, ledger) ==
    [status |-> TRUE, message |-> message, code |-> "", request_id |-> 0, data |-> <<ledger>>]
ErrorBody(message, code, request_id) ==
    [status |-> FALSE, message |-> message, code |-> code, request_id |-> request_id, data |-> << >>]

NoResponse == [status |-> 0, body |-> ErrorBody("", "", 0)]
Response(status, body) == [status |-> status, body |-> body]

\* the outcome of pointsService.creditPoints / debitPoints as the controller sees it
ServiceError(statusCode, message, code) ==
    [ok |-> FALSE, statusCode |-> statusCode, message |-> message, code |-> code, ledger |-> << >>]
ServiceOk(ledger) == [ok |-> TRUE, statusCode |-> 0, message |-> "", code |-> "", ledger |-> <<ledger>>]
NoOutcome == ServiceError(0, "", "")

\* z.number().int().positive() on body.points
SchemaOk(req) == req.points > 0

\* `Validation Error: ${firstError.field} - ${firstError.message}` for body.points
ValidationMessage(req) ==
    "Validation Error: body.points - " \o
        (IF req.endpoint = "credit" THEN "Points must be a positive integer"
         ELSE "Points to redeem must be a positive integer")

\* number of clock advances that led to time t
Ticks(t) == (t \div IDEMPOTENCY_TTL) + (t % IDEMPOTENCY_TTL)

\* the input the controller hands to the points service: reference_id is
\* `credit_${crypto.randomUUID()}` / `redeem_${crypto.randomUUID()}`, fresh per call
ServiceInput(req, r) ==
    [merchant_id |-> req.merchant_id, customer_uid |-> req.customer_uid, amount |-> req.points,
     reference_id |-> req.endpoint \o "_" \o ToString(r)]

Row(input, type, pointsBefore, pointsAfter) ==
    [merchant_id |-> input.merchant_id,
     member_uid |-> input.customer_uid,
     ledger_type |-> type,
     status |-> SUCCESSFUL,
     reference_id |-> input.reference_id,
     points |-> input.amount,
     points_balance_before |-> pointsBefore,
     points_balance_after |-> pointsAfter]

\* a whole creditPoints transaction run against the committed tables (the row locks
\* serialise the transactions of one merchant): its outcome and the tables after it
CreditTransaction(input) ==
    LET m == input.merchant_id
        k == <<input.merchant_id, input.customer_uid>>
        unchanged == [merchants |-> Merchants, customers |-> Customers, ledger |-> Pointsledger]
    IN  IF m \notin DOMAIN Merchants
        THEN unchanged @@
             [outcome |-> ServiceError(404, "Merchant not found", "merchant_not_found")]
        ELSE IF CreditInsufficient(Merchants[m], input.amount)
        THEN unchanged @@
             [outcome |-> ServiceError(400, "Insufficient merchant point balance", "insufficient_merchant_points")]
        ELSE IF k \notin DOMAIN Customers
        THEN unchanged @@ [outcome |-> ServiceError(404, "Customer not found", "customer_not_found")]
        ELSE LET row == Row(input, CREDIT, Customers[k], Customers[k] + input.amount) IN
             [merchants |-> [Merchants EXCEPT ![m] = CreditMerchantBalance(Merchants[m], input.amount)],
              customers |-> [Customers EXCEPT ![k] = row.points_balance_after],
              ledger |-> Append(Pointsledger, row),
              outcome |-> ServiceOk(row)]

\* a whole debitPoints transaction run against the committed tables
DebitTransaction(input) ==
    LET m == input.merchant_id
        k == <<input.merchant_id, input.customer_uid>>
        unchanged == [merchants |-> Merchants, customers |-> Customers, ledger |-> Pointsledger]
    IN  IF m \notin DOMAIN Merchants
        THEN unchanged @@ [outcome |-> ServiceError(404, "Merchant not found", "merchant_not_found")]
        ELSE IF k \notin DOMAIN Customers
        THEN unchanged @@ [outcome |-> ServiceError(404, "Customer not found", "customer_not_found")]
        ELSE IF DebitInsufficient(Customers[k], input.amount)
        THEN unchanged @@ [outcome |-> ServiceError(400, "Insufficient points balance", "insufficient_points")]
        ELSE LET row == Row(input, DEBIT, Customers[k], Customers[k] - input.amount) IN
             [merchants |-> [Merchants EXCEPT ![m] = DebitMerchantBalance(Merchants[m], input.amount)],
              customers |-> [Customers EXCEPT ![k] = row.points_balance_after],
              ledger |-> Append(Pointsledger, row),
              outcome |-> ServiceOk(row)]

\* errorHandler: the response for an AppError passed to next(err)
ErrorResponse(statusCode, message, code, request_id) ==
    Response(statusCode, ErrorBody(message, code, request_id))

----------------------------------------------------------------------------
\* WebhookService (src/services/webhookService.ts)

MAX_RETRIES == 3

\* timeout: 5000 of axios.post
POST_TIMEOUT_MS == 5000

\* the merchant of a webhook: m1 has a webhook URL and a secret, m2 has no URL, m3
\* has a URL and no secret, any other id has no row in Merchants
NoSecretMerchant == "m3"
WebhookMerchants == {"m1", OtherMerchant, NoSecretMerchant, UnknownMerchant}
NoRow == [found |-> FALSE, webhook_url |-> "", webhook_secret |-> ""]
WebhookConfig(merchantId) ==
    IF merchantId = "m1"
    THEN [found |-> TRUE, webhook_url |-> "https://m1.example/hook", webhook_secret |-> "whsec_m1"]
    ELSE IF merchantId = OtherMerchant
    THEN [found |-> TRUE, webhook_url |-> "", webhook_secret |-> "whsec_m2"]
    ELSE IF merchantId = NoSecretMerchant
    THEN [found |-> TRUE, webhook_url |-> "https://m3.example/hook", webhook_secret |-> ""]
    ELSE NoRow

\* the time the query on Merchants takes, in milliseconds
LookupDelays == {0, 1500}

\* what an HTTP attempt ends in: a 2xx response, a non-2xx response, a transport
\* error, or the 5 s timeout of axios
PostResults == {"2xx", "non2xx", "error", "timeout"}
PostDuration(result) == IF result = "timeout" THEN POST_TIMEOUT_MS ELSE 0

\* JSON.stringify(payload), as the sequence of its pieces
JsonStringify(payload) ==
    <<"{\"id\":", payload.id, ",\"event\":", payload.event,
      ",\"created_at\":", payload.created_at, ",\"data\":", payload.data, "}">>

\* crypto.createHmac("sha256", secret).update(data).digest("hex"): a value that
\* stands for the digest of exactly this key and this text
HmacSha256(secret, data) == <<"hmac-sha256", secret, data>>

\* faulty variant: the signature over the payload without the timestamp
generateSignatureNoTimestamp(payload, timestamp, secret) == HmacSha256(secret, payload)

\* WebhookService.generateSignature
generateSignature(payload, timestamp, secret) ==
    HmacSha256(secret, <<timestamp, ".">> \o payload)

\* `t=${timestamp},v1=${signature}`
HeaderValue(timestamp, signature) == <<"t=", timestamp, ",", "v1=", signature>>

\* faulty variant: the same delay before every retry
DelayConstant(attempt) == 1000

\* Math.pow(2, attempt - 1) * 1000
Delay(attempt) == (2 ^ (attempt - 1)) * 1000

NoPayload == [id |-> 0, event |-> "", created_at |-> 0, data |-> ""]

\* a call of sendWebhook at time t: the promise sendWebhook returns is fulfilled at
\* once, processWebhook runs on its own
NewDelivery(merchantId, event, data, t) ==
    [merchantId |-> merchantId, event |-> event, data |-> data, calledAt |-> t,
     pc |-> "lookup", returned |-> "fulfilled", process |-> "pending", caught |-> FALSE,
     error |-> "", elapsed |-> 0, attempt |-> 0, url |-> "", payload |-> NoPayload,
     signatureHeader |-> << >>, posts |-> << >>, waits |-> << >>]

\* a request in the pipeline: what was sent, where its handling stands, the outcome
\* of its service call and the response its caller got
NewRequest(req, pc) ==
    [req |-> req, pc |-> pc, outcome |-> NoOutcome, response |-> NoResponse, replayed |-> FALSE]

\* the original res.json: the response goes to the caller
OriginalJson(r, response) ==
    requests' = [requests EXCEPT ![r].pc = "done", ![r].response = response]

\* res.json as requireIdempotency overrides it: the response is stored under the
\* scoped key at the current time, then sent
StoringJson(r, response) ==
    /\ idempotencyStore' =
           [s \in DOMAIN idempotencyStore \cup {ScopedKey(requests[r].req.merchant_id, requests[r].req.key)} |->
               IF s = ScopedKey(requests[r].req.merchant_id, requests[r].req.key)
               THEN [response |-> response, createdAt |-> now]
               ELSE idempotencyStore[s]]
    /\ OriginalJson(r, response)

RemoveKey(store, s) == [x \in DOMAIN store \ {s} |-> store[x]]

\* a POST arrives: requireIdempotency runs up to its return or its call of next
Arrive(req) ==
    LET r == Len(requests) + 1
        scopedKey == ScopedKey(req.merchant_id, req.key)
    IN
    /\ r <= MaxHttp
    /\ IF req.key = << >>
       THEN /\ requests' = Append(requests,
                   [NewRequest(req, "done") EXCEPT !.response =
                       ErrorResponse(400, "Idempotency-Key header is required for POST requests",
                                     "idempotency_key_required", r)])
            /\ UNCHANGED idempotencyStore
       ELSE IF ~KeyPattern(req.key)
       THEN /\ requests' = Append(requests,
                   [NewRequest(req, "done") EXCEPT !.response =
                       ErrorResponse(400, "Idempotency-Key must be alphanumeric with hyphens or underscores (1-100 characters)",
                                     "invalid_idempotency_key", r)])
            /\ UNCHANGED idempotencyStore
       ELSE IF scopedKey \in DOMAIN idempotencyStore
       THEN LET existing == idempotencyStore[scopedKey] IN
            IF Expired(now - existing.createdAt)
            THEN /\ idempotencyStore' = RemoveKey(idempotencyStore, scopedKey)
                 /\ requests' = Append(requests, NewRequest(req, "validate"))
            ELSE /\ requests' = Append(requests,
                        [NewRequest(req, "done") EXCEPT !.response = existing.response,
                                                        !.replayed = TRUE])
                 /\ UNCHANGED idempotencyStore
       ELSE /\ requests' = Append(requests, NewRequest(req, "validate"))
            /\ UNCHANGED idempotencyStore
    /\ UNCHANGED <<now, webhooks, deliveries>>
    /\ UNCHANGED <<ledgerVars, busVars>>

\* validateRequest(creditPointsSchema / redeemPointsSchema)
Validate(r) ==
    /\ r <= Len(requests)
    /\ requests[r].pc = "validate"
    /\ IF SchemaOk(requests[r].req)
       THEN /\ requests' = [requests EXCEPT ![r].pc = "controller"]
            /\ UNCHANGED idempotencyStore
       ELSE StoringJson(r, ErrorResponse(400, ValidationMessage(requests[r].req), "validation_error", r))
    /\ UNCHANGED <<now, webhooks, deliveries>>
    /\ UNCHANGED <<ledgerVars, busVars>>

\* rule 1 of merchant m1 is active, rule 2 is not
RuleFound(rule_id, merchant_id) == rule_id = 1 /\ merchant_id = "m1"

\* req.body.rule_id, 0 when the body has none
RuleId(req) == IF "rule_id" \in DOMAIN req THEN req.rule_id ELSE 0

\* faulty variant: the increment started twice
RuleUsageTwice(queries, r, rule_id) ==
    queries \o << [request |-> r, rule_id |-> rule_id, state |-> "running"],
                  [request |-> r, rule_id |-> rule_id, state |-> "running"] >>

\* db("WaysToEarn").where({ id: rule_id }).increment("users_rewarded", 1).catch(...):
\* the query is started and not awaited
RuleUsage(queries, r, rule_id) ==
    Append(queries, [request |-> r, rule_id |-> rule_id, state |-> "running"])

\* the service call of the controller: the ledger transaction and its outcome
ServiceCall(r) ==
    LET req == requests[r].req
        after == IF req.endpoint = "credit"
                 THEN CreditTransaction(ServiceInput(req, r))
                 ELSE DebitTransaction(ServiceInput(req, r))
    IN
    /\ Merchants' = after.merchants
    /\ Customers' = after.customers
    /\ Pointsledger' = after.ledger
    /\ requests' = [requests EXCEPT ![r].pc = "respond", ![r].outcome = after.outcome]

\* the controller up to the return of `await pointsService.creditPoints(...)` /
\* `await pointsService.debitPoints(...)`; a credit with a rule_id up to the call of
\* pointsService.creditPoints: the lookup of the rule, then rule_not_found or the
\* increment of the rule's usage
Controller(r) ==
    LET req == requests[r].req IN
    /\ r <= Len(requests)
    /\ requests[r].pc = "controller"
    /\ IF req.endpoint = "credit" /\ RuleId(req) # 0
       THEN /\ IF RuleFound(RuleId(req), req.merchant_id)
               THEN /\ increments' = RuleUsage(increments, r, RuleId(req))
                    /\ requests' = [requests EXCEPT ![r].pc = "service"]
               ELSE /\ UNCHANGED increments
                    /\ requests' = [requests EXCEPT ![r].pc = "respond",
                           ![r].outcome = ServiceError(404, "Earning rule not found or inactive",
                                                       "rule_not_found")]
            /\ UNCHANGED <<Merchants, Customers, Pointsledger>>
       ELSE /\ ServiceCall(r)
            /\ UNCHANGED increments
    /\ UNCHANGED <<idempotencyStore, now, webhooks, deliveries>>
    /\ UNCHANGED <<rowLock, trx, returned, opsStarted, customerStatus, merchantConfig, usersRewarded>>
    /\ UNCHANGED busVars

\* the credit controller with a rule, from the call of pointsService.creditPoints to
\* its return
Service(r) ==
    /\ r <= Len(requests)
    /\ requests[r].pc = "service"
    /\ ServiceCall(r)
    /\ UNCHANGED <<idempotencyStore, now, webhooks, deliveries>>
    /\ UNCHANGED <<rowLock, trx, returned, opsStarted, customerStatus, merchantConfig, usersRewarded,
                   increments>>
    /\ UNCHANGED busVars

\* the increment query ends: the counter is one higher, or the query failed, which
\* the catch logs and nothing else sees
IncrementSettled(n, ok) ==
    /\ n <= Len(increments)
    /\ increments[n].state = "running"
    /\ increments' = [increments EXCEPT ![n].state = IF ok THEN "done" ELSE "failed"]
    /\ usersRewarded' = IF ok
                        THEN [usersRewarded EXCEPT ![increments[n].rule_id] = @ + 1]
                        ELSE usersRewarded
    /\ UNCHANGED <<Merchants, Customers, Pointsledger, rowLock, trx, returned, opsStarted,
                   customerStatus, merchantConfig>>
    /\ UNCHANGED <<busVars, httpVars>>

\* faulty variant: the controller calling sendWebhook whatever the service returned
RespondAlwaysDispatch(r) ==
    LET req == requests[r].req
        outcome == requests[r].outcome
        event == IF req.endpoint = "credit" THEN "points.earned" ELSE "points.redeemed"
    IN
    /\ r <= Len(requests)
    /\ requests[r].pc = "respond"
    /\ webhooks' = Append(webhooks,
           [merchant_id |-> req.merchant_id, event |-> event,
            reference_id |-> ServiceInput(req, r).reference_id])
    /\ deliveries' = Append(deliveries,
           NewDelivery(req.merchant_id, event, ServiceInput(req, r).reference_id, now))
    /\ IF outcome.ok
       THEN StoringJson(r, Response(200,
                SuccessBody(IF req.endpoint = "credit" THEN "Points credited successfully"
                            ELSE "Points redeemed successfully", outcome.ledger[1])))
       ELSE StoringJson(r, ErrorResponse(outcome.statusCode, outcome.message, outcome.code, r))
    /\ UNCHANGED now
    /\ UNCHANGED <<ledgerVars, busVars>>

\* the controller after the await: webhook and res.status(200).json(...), or
\* catch -> next(error) -> errorHandler
Respond(r) ==
    LET req == requests[r].req
        outcome == requests[r].outcome
    IN
    /\ r <= Len(requests)
    /\ requests[r].pc = "respond"
    /\ IF outcome.ok
       THEN /\ webhooks' = Append(webhooks,
                   [merchant_id |-> req.merchant_id,
                    event |-> IF req.endpoint = "credit" THEN "points.earned" ELSE "points.redeemed",
                    reference_id |-> outcome.ledger[1].reference_id])
            /\ deliveries' = Append(deliveries,
                   NewDelivery(req.merchant_id,
                               IF req.endpoint = "credit" THEN "points.earned" ELSE "points.redeemed",
                               outcome.ledger[1].reference_id, now))
            /\ StoringJson(r, Response(200,
                   SuccessBody(IF req.endpoint = "credit" THEN "Points credited successfully"
                               ELSE "Points redeemed successfully", outcome.ledger[1])))
       ELSE /\ UNCHANGED <<webhooks, deliveries>>
            /\ StoringJson(r, ErrorResponse(outcome.statusCode, outcome.message, outcome.code, r))
    /\ UNCHANGED now
    /\ UNCHANGED <<ledgerVars, busVars>>

\* Date.now() advances: by a millisecond, or by the length of the retention window
Tick(ms) ==
    /\ Ticks(now) < MaxTicks
    /\ now' = now + ms
    /\ UNCHANGED <<idempotencyStore, requests, webhooks, deliveries>>
    /\ UNCHANGED <<ledgerVars, busVars>>

\* cleanupExpiredKeys, run by the hourly interval
cleanupExpiredKeys ==
    /\ idempotencyStore' =
           [s \in {x \in DOMAIN idempotencyStore : ~Expired(now - idempotencyStore[x].createdAt)} |->
               idempotencyStore[s]]
    /\ UNCHANGED <<now, requests, webhooks, deliveries>>
    /\ UNCHANGED <<ledgerVars, busVars>>

\* the number of sendWebhook calls followed that do not come from the points routes
MaxDeliveries == 1

\* faulty variant: the signature header computed anew for each attempt, from the
\* time of the attempt
PostResigned(d, attempt, at) ==
    LET timestamp == ToString((d.calledAt + at) \div 1000) IN
    [attempt |-> attempt, at |-> at, url |-> d.url, body |-> JsonStringify(d.payload),
     header |-> HeaderValue(timestamp,
                    generateSignature(JsonStringify(d.payload), timestamp,
                                      WebhookConfig(d.merchantId).webhook_secret)),
     result |-> "inflight"]

\* a POST handed to axios: the attempt it belongs to, the time since the call of
\* sendWebhook, and what goes on the wire
Post(d, attempt, at) ==
    [attempt |-> attempt, at |-> at, url |-> d.url, body |-> JsonStringify(d.payload),
     header |-> d.signatureHeader, result |-> "inflight"]

\* sendWebhook called by a controller outside the points routes (customer.created)
sendWebhook(merchantId, event, data) ==
    /\ Len(deliveries) < MaxDeliveries
    /\ deliveries' = Append(deliveries, NewDelivery(merchantId, event, data, now))
    /\ UNCHANGED <<idempotencyStore, now, requests, webhooks>>
    /\ UNCHANGED <<ledgerVars, busVars>>

\* faulty variant: a failing query on Merchants rejecting the promise of sendWebhook,
\* as if sendWebhook awaited processWebhook without its catch
processWebhookAwaited(i, ms, throws) ==
    LET d == deliveries[i]
        merchant == WebhookConfig(d.merchantId)
        at == d.elapsed + ms
        payload == [id |-> i, event |-> d.event, created_at |-> d.calledAt + at, data |-> d.data]
        timestamp == ToString((d.calledAt + at) \div 1000)
        signature == generateSignature(JsonStringify(payload), timestamp, merchant.webhook_secret)
        prepared == [d EXCEPT !.elapsed = at, !.url = merchant.webhook_url, !.payload = payload,
                              !.signatureHeader = HeaderValue(timestamp, signature),
                              !.attempt = 1, !.pc = "attempt"]
    IN
    /\ i <= Len(deliveries)
    /\ d.pc = "lookup"
    /\ deliveries' = [deliveries EXCEPT ![i] =
           IF throws
           THEN [d EXCEPT !.elapsed = at, !.pc = "done", !.process = "rejected",
                          !.error = "query failed", !.returned = "rejected"]
           ELSE IF ~merchant.found \/ merchant.webhook_url = "" \/ merchant.webhook_secret = ""
           THEN [d EXCEPT !.elapsed = at, !.pc = "done", !.process = "fulfilled"]
           ELSE [prepared EXCEPT !.posts = <<Post(prepared, 1, at)>>]]
    /\ UNCHANGED <<idempotencyStore, now, requests, webhooks>>
    /\ UNCHANGED <<ledgerVars, busVars>>

\* faulty variant: processWebhook without the check of the webhook secret
processWebhookNoSecretCheck(i, ms, throws) ==
    LET d == deliveries[i]
        merchant == WebhookConfig(d.merchantId)
        at == d.elapsed + ms
        payload == [id |-> i, event |-> d.event, created_at |-> d.calledAt + at, data |-> d.data]
        timestamp == ToString((d.calledAt + at) \div 1000)
        signature == generateSignature(JsonStringify(payload), timestamp, merchant.webhook_secret)
        prepared == [d EXCEPT !.elapsed = at, !.url = merchant.webhook_url, !.payload = payload,
                              !.signatureHeader = HeaderValue(timestamp, signature),
                              !.attempt = 1, !.pc = "attempt"]
    IN
    /\ i <= Len(deliveries)
    /\ d.pc = "lookup"
    /\ deliveries' = [deliveries EXCEPT ![i] =
           IF throws
           THEN [d EXCEPT !.elapsed = at, !.pc = "done", !.process = "rejected",
                          !.error = "query failed", !.caught = TRUE]
           ELSE IF ~merchant.found \/ merchant.webhook_url = ""
           THEN [d EXCEPT !.elapsed = at, !.pc = "done", !.process = "fulfilled"]
           ELSE [prepared EXCEPT !.posts = <<Post(prepared, 1, at)>>]]
    /\ UNCHANGED <<idempotencyStore, now, requests, webhooks>>
    /\ UNCHANGED <<ledgerVars, busVars>>

\* processWebhook from the return of the query on Merchants: the three silent
\* aborts, or payload, signature and the first call of axios.post; a query that
\* throws is logged, rethrown and caught by sendWebhook
processWebhook(i, ms, throws) ==
    LET d == deliveries[i]
        merchant == WebhookConfig(d.merchantId)
        at == d.elapsed + ms
        payload == [id |-> i, event |-> d.event, created_at |-> d.calledAt + at, data |-> d.data]
        timestamp == ToString((d.calledAt + at) \div 1000)
        signature == generateSignature(JsonStringify(payload), timestamp, merchant.webhook_secret)
        prepared == [d EXCEPT !.elapsed = at, !.url = merchant.webhook_url, !.payload = payload,
                              !.signatureHeader = HeaderValue(timestamp, signature),
                              !.attempt = 1, !.pc = "attempt"]
    IN
    /\ i <= Len(deliveries)
    /\ d.pc = "lookup"
    /\ deliveries' = [deliveries EXCEPT ![i] =
           IF throws
           THEN [d EXCEPT !.elapsed = at, !.pc = "done", !.process = "rejected",
                          !.error = "query failed", !.caught = TRUE]
           ELSE IF ~merchant.found \/ merchant.webhook_url = "" \/ merchant.webhook_secret = ""
           THEN [d EXCEPT !.elapsed = at, !.pc = "done", !.process = "fulfilled"]
           ELSE [prepared EXCEPT !.posts = <<Post(prepared, 1, at)>>]]
    /\ UNCHANGED <<idempotencyStore, now, requests, webhooks>>
    /\ UNCHANGED <<ledgerVars, busVars>>

\* faulty variant: sendWithRetry retrying without the attempt limit
PostSettledUnlimited(i, result) ==
    LET d == deliveries[i]
        at == d.elapsed + PostDuration(result)
        settled == [d EXCEPT !.elapsed = at, !.posts[Len(d.posts)].result = result]
    IN
    /\ i <= Len(deliveries)
    /\ d.pc = "attempt"
    /\ d.attempt <= MAX_RETRIES
    /\ deliveries' = [deliveries EXCEPT ![i] =
           IF result = "2xx"
           THEN [settled EXCEPT !.pc = "done", !.process = "fulfilled"]
           ELSE [settled EXCEPT !.pc = "wait"]]
    /\ UNCHANGED <<idempotencyStore, now, requests, webhooks>>
    /\ UNCHANGED <<ledgerVars, busVars>>

\* sendWithRetry from the settling of axios.post: delivered, or the catch block:
\* wait for the retry, or after the last attempt throw to processWebhook, which logs
\* and rethrows to the catch of sendWebhook
PostSettled(i, result) ==
    LET d == deliveries[i]
        at == d.elapsed + PostDuration(result)
        settled == [d EXCEPT !.elapsed = at, !.posts[Len(d.posts)].result = result]
    IN
    /\ i <= Len(deliveries)
    /\ d.pc = "attempt"
    /\ deliveries' = [deliveries EXCEPT ![i] =
           IF result = "2xx"
           THEN [settled EXCEPT !.pc = "done", !.process = "fulfilled"]
           ELSE IF d.attempt < MAX_RETRIES
           THEN [settled EXCEPT !.pc = "wait"]
           ELSE [settled EXCEPT !.pc = "done", !.process = "rejected",
                                !.error = "Failed to deliver webhook after 3 attempts",
                                !.caught = TRUE]]
    /\ UNCHANGED <<idempotencyStore, now, requests, webhooks>>
    /\ UNCHANGED <<ledgerVars, busVars>>

\* the setTimeout(resolve, delay) of the catch block fires: the next attempt
RetryTimer(i) ==
    LET d == deliveries[i]
        at == d.elapsed + Delay(d.attempt)
    IN
    /\ i <= Len(deliveries)
    /\ d.pc = "wait"
    /\ deliveries' = [deliveries EXCEPT ![i] =
           [d EXCEPT !.elapsed = at, !.waits = Append(d.waits, Delay(d.attempt)),
                     !.attempt = d.attempt + 1, !.pc = "attempt",
                     !.posts = Append(d.posts, Post(d, d.attempt + 1, at))]]
    /\ UNCHANGED <<idempotencyStore, now, requests, webhooks>>
    /\ UNCHANGED <<ledgerVars, busVars>>

\* the credit request of the points route that the dispatcher is followed with
HookRequest ==
    [endpoint |-> "credit", merchant_id |-> "m1", key |-> <<"k">>, customer_uid |-> "c1", points |-> 1]

\* the dispatcher called by the credit route for merchant m1, whose webhook is
\* configured, and by another route for the merchants whose webhook is not
NextWebhook ==
    \/ Arrive(HookRequest)
    \/ \E r \in 1..MaxHttp : Validate(r)
    \/ \E r \in 1..MaxHttp : Controller(r)
    \/ \E r \in 1..MaxHttp : Respond(r)
    \/ \E merchantId \in WebhookMerchants \ {"m1"} :
           sendWebhook(merchantId, "customer.created", "customer")
    \/ \E i \in 1..(MaxDeliveries + 1), ms \in LookupDelays, throws \in BOOLEAN : processWebhook(i, ms, throws)
    \/ \E i \in 1..(MaxDeliveries + 1), result \in PostResults : PostSettled(i, result)
    \/ \E i \in 1..(MaxDeliveries + 1) : RetryTimer(i)

\* CustomerService.restrictCustomer, reached through a route that admits only
\* customers in active status: the status update, then the customer.restricted webhook
restrictCustomer(k) ==
    /\ k \in DOMAIN Customers
    /\ customerStatus[k] = "active"
    /\ customerStatus' = [customerStatus EXCEPT ![k] = "restricted"]
    /\ deliveries' = Append(deliveries, NewDelivery(k[1], "customer.restricted", k[2], now))
    /\ UNCHANGED <<Merchants, Customers, Pointsledger, rowLock, trx, returned, opsStarted,
                   merchantConfig, usersRewarded, increments>>
    /\ UNCHANGED <<idempotencyStore, now, requests, webhooks>>
    /\ UNCHANGED busVars

\* the points routes next to the restriction of customers
NextRedeem ==
    \/ \E req \in HttpRequests : Arrive(req)
    \/ \E r \in 1..MaxHttp : Validate(r)
    \/ \E r \in 1..MaxHttp : Controller(r)
    \/ \E r \in 1..MaxHttp : Respond(r)
    \/ \E k \in CustomerKeys : restrictCustomer(k)

\* the HTTP verbs a request can carry
Methods == {"GET", "POST", "PUT", "PATCH", "DELETE"}

\* requests of every verb, with and without an Idempotency-Key header
VerbRequests == [method : Methods, endpoint : {"credit"}, merchant_id : MerchantIds,
                 key : HeaderValues, customer_uid : {"c1"}, points : {1}]

\* faulty variant: requireIdempotency without its test of req.method
requireIdempotencyAnyVerb(req) == Arrive(req)

\* requireIdempotency: `if (req.method !== "POST") return next()` before anything
\* else; the handlers behind next() are not followed for the other verbs
requireIdempotency(req) ==
    IF req.method # "POST"
    THEN /\ Len(requests) < MaxHttp
         /\ requests' = Append(requests, NewRequest(req, "next"))
         /\ UNCHANGED <<idempotencyStore, now, webhooks, deliveries>>
         /\ UNCHANGED <<ledgerVars, busVars>>
    ELSE Arrive(req)

\* the middleware under requests of every verb, the points pipeline behind it for POST
NextVerbs ==
    \/ \E req \in VerbRequests : requireIdempotency(req)
    \/ \E r \in 1..MaxHttp : Validate(r)
    \/ \E r \in 1..MaxHttp : Controller(r)
    \/ \E r \in 1..MaxHttp : Respond(r)
    \/ \E ms \in {1, IDEMPOTENCY_TTL} : Tick(ms)

----------------------------------------------------------------------------
\* PointsService of the delegated strategy (src/services/pointsService.ts, the
\* variant that publishes to the dashboard backend)

\* reference_id of the call that gets the correlation id `id`: fresh per request
RefOf(id) == "ref_" \o ToString(id)

\* the inputs of the delegated calls: amounts below, at and above the balances
DelegatedInputs(id) == {DelegatedInput("m1", "c1", a, RefOf(id)) : a \in 1..MaxAmount}

\* creditPoints: one requestReply of type points.credit, awaited
DelegatedCreditPoints(input) ==
    requestReply("points.credit", CreditData(input), DEFAULT_TIMEOUT_MS)

\* debitPoints: one requestReply of type points.redeem, awaited
DelegatedDebitPoints(input) ==
    requestReply("points.redeem", DebitData(input), DEFAULT_TIMEOUT_MS)

\* faulty variant: the service wrapping every rejection in a generic error
DelegatedOutcomeWrapped(f) ==
    IF f.state = "rejected" THEN AppError("Points operation failed", 500, "points_error") ELSE f

\* the promise of the async creditPoints / debitPoints: `return ledgerEntry` fulfils it
\* with the awaited value, a rejection of the awaited promise rejects it with the
\* same error
DelegatedOutcome(f) ==
    IF f.state = "resolved" THEN Resolved(f.data) ELSE f

\* the ledger entry as it travels in EventResult.data
EntryData(row) == "ledger:" \o row.reference_id

\* the EventResult the dashboard backend builds from the outcome of its transaction
EventResult(id, outcome) ==
    IF outcome.ok
    THEN [correlationId |-> id, success |-> TRUE, data |-> EntryData(outcome.ledger[1]),
          error |-> NoRemoteError]
    ELSE [correlationId |-> id, success |-> FALSE, data |-> "",
          error |-> [message |-> outcome.message, code |-> outcome.code,
                     statusCode |-> outcome.statusCode]]

\* Redis hands the published event to the subscribed dashboard backend, before it
\* answers the publisher with the number of subscribers
RemoteReceive(id) ==
    /\ publish[id] = "inflight"
    /\ remote[id].state = "none"
    /\ remote' = [remote EXCEPT ![id].state = "received"]
    /\ UNCHANGED <<pendingRequests, initialized, listeners, future, timer, publish, published,
                   forgotten, answers>>
    /\ logged' = NoLog
    /\ UNCHANGED <<ledgerVars, httpVars>>

\* the dashboard backend handles the event as the service expects it to: validate,
\* move the balances and create the ledger entry in one transaction, or refuse
RemoteApply(id) ==
    LET event == published[id]
        after == IF event.type = "points.credit"
                 THEN CreditTransaction(event.data)
                 ELSE DebitTransaction(event.data)
    IN
    /\ remote[id].state = "received"
    /\ Merchants' = after.merchants
    /\ Customers' = after.customers
    /\ Pointsledger' = after.ledger
    /\ remote' = [remote EXCEPT ![id] = [state |-> "handled", applied |-> after.outcome.ok,
                                         reply |-> EventResult(id, after.outcome)]]
    /\ UNCHANGED <<rowLock, trx, returned, opsStarted, customerStatus, merchantConfig,
                   usersRewarded, increments>>
    /\ UNCHANGED <<pendingRequests, initialized, listeners, future, timer, publish, published,
                   forgotten, answers>>
    /\ logged' = NoLog
    /\ UNCHANGED httpVars

\* the EventResult of the dashboard backend arrives on the results channel: every
\* registered listener runs handleResult on it; without a listener it is lost
RemoteReply(id) ==
    /\ remote[id].state = "handled"
    /\ remote' = [remote EXCEPT ![id].state = "replied"]
    /\ IF listeners = 0
       THEN /\ UNCHANGED <<pendingRequests, future, timer>>
            /\ logged' = NoLog
       ELSE SetWaiters(Listeners(listeners, Waiters, remote[id].reply))
    /\ UNCHANGED <<initialized, listeners, publish, published, forgotten, answers>>
    /\ UNCHANGED <<ledgerVars, httpVars>>

\* the subscriber count Redis reports for the event
SubscriberCount(id) == IF remote[id].state = "none" THEN 0 ELSE 1

\* the delegated strategy: the service calls, the event service and the dashboard
\* backend
NextDelegated ==
    \/ initialize
    \/ \E input \in DelegatedInputs(Len(published) + 1) : DelegatedCreditPoints(input)
    \/ \E input \in DelegatedInputs(Len(published) + 1) : DelegatedDebitPoints(input)
    \/ \E id \in CorrIds : RemoteReceive(id)
    \/ \E id \in CorrIds : RemoteApply(id)
    \/ \E id \in CorrIds : RemoteReply(id)
    \/ \E id \in CorrIds : Timeout(id)
    \/ \E id \in CorrIds : PublishResolved(id, SubscriberCount(id))
    \/ \E id \in CorrIds : PublishRejected(id)
    \/ shutdown

\* credit requests without a rule, with the active rule and with the inactive one,
\* for amounts within and above the merchant pool
RuleRequests == [endpoint : {"credit"}, merchant_id : MerchantIds, key : {<<"k">>},
                 customer_uid : {"c1"}, points : 1..MaxAmount, rule_id : {0} \cup Rules]

\* the credit route with earning rules
NextRules ==
    \/ \E req \in RuleRequests : Arrive(req)
    \/ \E r \in 1..MaxHttp : Validate(r)
    \/ \E r \in 1..MaxHttp : Controller(r)
    \/ \E r \in 1..MaxHttp : Service(r)
    \/ \E r \in 1..MaxHttp : Respond(r)
    \/ \E n \in 1..MaxHttp, ok \in BOOLEAN : IncrementSettled(n, ok)

InitHttp ==
    /\ idempotencyStore = << >>
    /\ now = 0
    /\ requests = << >>
    /\ webhooks = << >>
    /\ deliveries = << >>

\* header values at the limits of the key format: 100 and 101 characters
LongestKey == [i \in 1..100 |-> "a"]
TooLongKey == [i \in 1..101 |-> "a"]

\* credit requests of two merchants under well-formed and malformed keys
KeyRequests == [endpoint : {"credit"}, merchant_id : MerchantIds \cup {OtherMerchant},
                key : HeaderValues \cup {<<"j">>, LongestKey, TooLongKey},
                customer_uid : {"c1"}, points : {1}]

NextHttpKeys ==
    \/ \E req \in KeyRequests : Arrive(req)
    \/ \E r \in 1..MaxHttp : Validate(r)
    \/ \E r \in 1..MaxHttp : Controller(r)
    \/ \E r \in 1..MaxHttp : Respond(r)

NextHttp ==
    \/ \E req \in HttpRequests : Arrive(req)
    \/ \E r \in 1..MaxHttp : Validate(r)
    \/ \E r \in 1..MaxHttp : Controller(r)
    \/ \E r \in 1..MaxHttp : Respond(r)
    \/ \E ms \in {1, IDEMPOTENCY_TTL} : Tick(ms)
    \/ cleanupExpiredKeys

----------------------------------------------------------------------------

Init == InitLedgerStore /\ InitEventService /\ InitHttp

SpecLedger == Init /\ [][NextLedger]_vars

\* Every transaction step is taken eventually: the database serves each query of a
\* running transaction, and a lock wait ends when the holder commits or rolls back.
SpecLedgerFair == SpecLedger /\ \A t \in Trx : WF_vars(TrxStep(t))

SpecBus == Init /\ [][NextBus]_vars

SpecHttp == Init /\ [][NextHttp]_vars

SpecWebhook == Init /\ [][NextWebhook]_vars

SpecHttpKeys == Init /\ [][NextHttpKeys]_vars

SpecBusForget == Init /\ [][NextBusForget]_vars

SpecBusHttp == Init /\ [][NextBusHttp]_vars

\* the store with each customer either active or restricted by an earlier call of
\* restrictCustomer
InitRedeem ==
    /\ Merchants = InitMerchants
    /\ Customers = InitCustomers
    /\ Pointsledger = <<>>
    /\ rowLock = [r \in Rows |-> NoTrx]
    /\ trx = [t \in Trx |-> IdleTrx]
    /\ returned = NoResult
    /\ opsStarted = 0
    /\ customerStatus \in [CustomerKeys -> {"active", "restricted"}]
    /\ merchantConfig = InitMerchantConfig
    /\ usersRewarded = [rule \in Rules |-> 0]
    /\ increments = << >>
    /\ InitEventService
    /\ InitHttp

SpecRedeem == InitRedeem /\ [][NextRedeem]_vars

SpecVerbs == Init /\ [][NextVerbs]_vars

SpecDelegated == Init /\ [][NextDelegated]_vars

SpecConfig == Init /\ [][NextConfig]_vars

SpecRules == Init /\ [][NextRules]_vars

\* An armed timer fires unless clearTimeout reaches it first.
SpecBusFair == SpecBus /\ \A id \in CorrIds : WF_vars(Timeout(id))

----------------------------------------------------------------------------
(* Properties of the ledger engine                                          *)

RECURSIVE SumOver(_, _)
SumOver(f, S) ==
    IF S = {} THEN 0
    ELSE LET x == CHOOSE y \in S : TRUE IN f[x] + SumOver(f, S \ {x})

CustomersOf(m) == {k \in CustomerKeys : k[1] = m}

Tables == <<Merchants, Customers, Pointsledger>>

\* net points moved to customer k (credits minus debits) by the first n ledger rows
RECURSIVE CustomerNet(_, _)
CustomerNet(k, n) ==
    IF n = 0 THEN 0
    ELSE LET e == Pointsledger[n] IN
         CustomerNet(k, n - 1) +
           (IF <<e.merchant_id, e.member_uid>> = k
            THEN (IF e.ledger_type = CREDIT THEN e.points ELSE 0 - e.points)
            ELSE 0)

MerchantNet(m) == SumOver([k \in CustomerKeys |-> CustomerNet(k, Len(Pointsledger))], CustomersOf(m))

Committed(type) == \E i \in 1..Len(Pointsledger) : Pointsledger[i].ledger_type = type

\* C1: for every merchant, point_balance plus the sum of its customers' points_balance
\* is the same in every reachable state as in the initial state.
C1_Conservation ==
    \A m \in MerchantIds :
        Merchants[m] + SumOver(Customers, CustomersOf(m))
            = InitMerchants[m] + SumOver(InitCustomers, CustomersOf(m))

\* a credit and a debit have both committed, and a customer balance has moved
C1_Witness ==
    /\ Committed(CREDIT)
    /\ Committed(DEBIT)
    /\ Customers # InitCustomers

\* C2: no merchant point_balance and no customer points_balance is ever negative.
C2_NonNegative ==
    /\ \A m \in MerchantIds : Merchants[m] >= 0
    /\ \A k \in CustomerKeys : Customers[k] >= 0

\* transfers have emptied the pool, respectively a customer that had points
C2_Witness ==
    /\ Pointsledger # <<>>
    /\ \/ \E m \in MerchantIds : Merchants[m] = 0 /\ Committed(CREDIT)
       \/ \E k \in CustomerKeys : Customers[k] = 0 /\ InitCustomers[k] > 0

\* the committed balances are the initial balances moved by the committed ledger rows
C6_BalancesMatchLedger ==
    /\ \A k \in CustomerKeys : Customers[k] = InitCustomers[k] + CustomerNet(k, Len(Pointsledger))
    /\ \A m \in MerchantIds : Merchants[m] = InitMerchants[m] - MerchantNet(m)

C6_Step ==
    /\ Tables' # Tables =>
          \E t \in Trx : /\ trx[t].pc = "commit" /\ trx'[t].pc = "idle"
                         /\ Len(Pointsledger') = Len(Pointsledger) + 1
    /\ \A t \in Trx :
          trx[t].pc = "rollback" /\ trx'[t].pc = "idle" =>
              /\ Tables' = Tables
              /\ returned'.status = "error"
              /\ returned'.code = trx[t].err
              /\ returned'.entry = <<>>

\* C6: creditPoints and debitPoints are all-or-nothing. The committed balances are
\* exactly the initial balances moved by the committed ledger rows; the tables change
\* only in the step in which a transaction commits (all of its writes at once); a
\* call that fails changes no table and hands its caller the error that was thrown.
C6_AllOrNothing == [](C6_BalancesMatchLedger) /\ [][C6_Step]_vars

\* a call failed at the ledger insert, after both balance updates of its transaction
C6_Witness ==
    /\ returned.status = "error"
    /\ returned.code = "unique_violation"
    /\ C6_BalancesMatchLedger

\* a customer row lock is held only together with the merchant row lock
C7_LockOrder ==
    \A t \in Trx, k \in CustomerKeys :
        rowLock[CustomerRow(k[1], k[2])] = t => rowLock[MerchantRow(k[1])] = t

C7_NoDeadlock == (\E t \in Trx : Active(t)) => (\E t \in Trx : ENABLED TrxStep(t))

\* C7: a transaction holds a customer row lock only while it holds the merchant row
\* lock; whenever a call is running some transaction can take a step (no deadlock);
\* and every call that has started ends (commits or rolls back).
C7_DeadlockFree ==
    /\ [](C7_LockOrder /\ C7_NoDeadlock)
    /\ \A t \in Trx : Active(t) ~> ~Active(t)

\* a credit waits for the merchant row while a debit holds both rows
C7_Witness ==
    \E t, u \in Trx :
        /\ trx[t].op = CREDIT /\ trx[t].pc = "c_lockMerchant"
        /\ trx[u].op = DEBIT /\ trx[u].pc = "d_updMerchant"
        /\ trx[t].input.merchant_id = trx[u].input.merchant_id
        /\ rowLock[MerchantRow(trx[u].input.merchant_id)] = u
        /\ ~ENABLED TrxStep(t)

\* the steps of a credit around its balance check
C9_Step ==
    \A t \in Trx :
        LET m == trx[t].input.merchant_id
            amount == trx[t].input.amount IN
        /\ (trx[t].pc = "c_lockMerchant" /\ trx'[t].pc # "c_lockMerchant" /\ m \in MerchantIds) =>
              /\ (Merchants[m] < amount) <=>
                     (trx'[t].pc = "rollback" /\ trx'[t].err = "insufficient_merchant_points")
              /\ (Merchants[m] >= amount) <=> (trx'[t].pc = "c_lockCustomer")
              /\ trx'[t].wMerchants = {} /\ trx'[t].wCustomers = {} /\ trx'[t].wLedger = <<>>
        /\ (trx[t].pc = "rollback" /\ trx[t].err = "insufficient_merchant_points" /\ trx'[t].pc = "idle") =>
              /\ Tables' = Tables
              /\ returned'.status = "error"
              /\ returned'.code = "insufficient_merchant_points"
        /\ (trx[t].op = CREDIT /\ trx[t].pc = "commit" /\ trx'[t].pc = "idle"
                /\ amount = Merchants[m]) =>
              Merchants'[m] = 0

\* C9: a credit whose amount exceeds the pool balance read under the lock is rejected
\* with insufficient_merchant_points, and only then; the rejected call changes no
\* table; a credit of exactly the pool balance passes the check and, when it commits,
\* leaves the pool at 0.
C9_InsufficientMerchantPoints == [][C9_Step]_vars

\* a credit is rejected for an empty pool that an earlier credit of the whole
\* balance has emptied
C9_Witness ==
    /\ returned.op = CREDIT
    /\ returned.code = "insufficient_merchant_points"
    /\ returned.input.merchant_id \in MerchantIds
    /\ Merchants[returned.input.merchant_id] = 0
    /\ \E i \in 1..Len(Pointsledger) :
          /\ Pointsledger[i].ledger_type = CREDIT
          /\ Pointsledger[i].points = InitPool

\* the steps of a debit around its balance check
C10_Step ==
    \A t \in Trx :
        LET k == <<trx[t].input.merchant_id, trx[t].input.customer_uid>>
            amount == trx[t].input.amount IN
        /\ (/\ trx[t].op = DEBIT
            /\ trx[t].pc \in {"d_lockMerchant", "d_lockCustomer"}
            /\ trx'[t].pc \in {"d_updMerchant", "rollback"}
            /\ trx'[t].err \notin {"merchant_not_found", "customer_not_found"}) =>
              /\ (Customers[k] < amount) =>
                     (trx'[t].pc = "rollback" /\ trx'[t].err = "insufficient_points")
              /\ trx'[t].wMerchants = {} /\ trx'[t].wCustomers = {} /\ trx'[t].wLedger = <<>>
        /\ (trx[t].pc = "rollback" /\ trx[t].err = "insufficient_points" /\ trx'[t].pc = "idle") =>
              /\ Tables' = Tables
              /\ returned'.status = "error"
              /\ returned'.code = "insufficient_points"

\* C10: a debit whose amount exceeds the customer balance read under the lock is
\* rejected with insufficient_points; the rejected call changes no table.
C10_InsufficientPoints == [][C10_Step]_vars

\* a debit of more than the customer's balance has just been rejected
C10_Witness ==
    /\ returned.op = DEBIT
    /\ returned.code = "insufficient_points"
    /\ <<returned.input.merchant_id, returned.input.customer_uid>> \in CustomerKeys
    /\ Customers[<<returned.input.merchant_id, returned.input.customer_uid>>] < returned.input.amount

----------------------------------------------------------------------------
(* Properties of the event service                                          *)

Settled(f) == f.state \in {"resolved", "rejected"}

\* a request issued, a waiter registered, a pending promise and an armed timer go
\* together: the promise of a request that was issued is pending exactly as long as
\* its waiter is registered, and exactly as long as its timer is armed
C5_Inv ==
    \A id \in CorrIds :
        /\ future[id].state = "none" <=> id > Len(published)
        /\ future[id].state = "pending" <=> id \in DOMAIN pendingRequests
        /\ future[id].state = "pending" <=> timer[id] = "armed"

\* the outcome of a settled promise never changes
C5_Step == \A id \in CorrIds : Settled(future[id]) => future'[id] = future[id]

\* C5: every promise returned by requestReply is settled exactly once under every
\* interleaving of reply, deadline, publish result and shutdown: while it is pending
\* its deadline timer is armed, it is eventually resolved or rejected, and once it is
\* settled no later reply, timer, publish result or shutdown changes its outcome.
C5_SettledExactlyOnce ==
    /\ [](C5_Inv)
    /\ [][C5_Step]_vars
    /\ \A id \in CorrIds : (future[id].state = "pending") ~> Settled(future[id])

\* one request was rejected by its deadline and its publish promise settled later,
\* the other request was settled by shutdown or by a reply
C5_Witness ==
    \E id, other \in CorrIds :
        /\ id # other
        /\ timer[id] = "fired"
        /\ future[id] = TimeoutError(published[id].type)
        /\ publish[id] = "settled"
        /\ Settled(future[other])
        /\ future[other].code # "event_timeout"

\* the waiters, promises and timers of the requests other than id are left alone
OthersUnchanged(id) ==
    \A other \in CorrIds \ {id} :
        /\ future'[other] = future[other]
        /\ timer'[other] = timer[other]
        /\ (other \in DOMAIN pendingRequests') = (other \in DOMAIN pendingRequests)

C8_Inv == \A id \in CorrIds : timer[id] = "armed" => id \in DOMAIN pendingRequests

C8_Step ==
    /\ \A id \in CorrIds :
          \* the deadline comes first
          /\ timer[id] = "armed" /\ timer'[id] = "fired" =>
                /\ id \notin DOMAIN pendingRequests'
                /\ future'[id] = TimeoutError(published[id].type)
                /\ OthersUnchanged(id)
          \* a timer that was cleared never fires
          /\ timer[id] = "cleared" => timer'[id] = "cleared"
    /\ \A message \in Messages :
          OnMessage(RESULTS_CHANNEL, message) /\ message.json =>
              LET res == message.result
                  id == res.correlationId IN
              IF id \in DOMAIN pendingRequests
              THEN \* the reply comes first
                   /\ id \notin DOMAIN pendingRequests'
                   /\ timer'[id] = "cleared"
                   /\ future'[id].state = (IF res.success THEN "resolved" ELSE "rejected")
                   /\ OthersUnchanged(id)
              ELSE \* a reply without a waiter (late, or for another instance)
                   /\ pendingRequests' = pendingRequests
                   /\ future' = future
                   /\ timer' = timer

\* C8: for an outstanding request the deadline and the matching reply race safely.
\* The one that comes first removes the waiter and settles the promise; then the
\* timer cannot fire (it was cleared), respectively the reply finds no waiter and is
\* dropped: it changes no promise, no timer and no waiter of any request.
C8_TimeoutReplyRace == [](C8_Inv) /\ [][C8_Step]_vars

\* a reply for a request that timed out has just been dropped while another request
\* is still waiting
C8_Witness ==
    \E id, other \in CorrIds :
        /\ logged = LogLine("warn", "Received result for unknown correlationId", id)
        /\ timer[id] = "fired"
        /\ future[id] = TimeoutError(published[id].type)
        /\ other \in DOMAIN pendingRequests
        /\ future[other].state = "pending"

----------------------------------------------------------------------------
(* Properties of the idempotency layer                                      *)

\* the ledger rows written for request r
RowsOf(r) ==
    {i \in 1..Len(Pointsledger) :
        Pointsledger[i].reference_id = ServiceInput(requests[r].req, r).reference_id}

\* the points service was called for request r
Invoked(r) == requests[r].pc = "respond" \/ (requests[r].pc = "done" /\ requests[r].outcome # NoOutcome)

\* requests r1 and r2 are the same POST under the same valid Idempotency-Key
SameRequest(r1, r2) ==
    /\ r1 < r2
    /\ requests[r1].req = requests[r2].req
    /\ KeyPattern(requests[r1].req.key)

\* two responses with the same status and the same body, the request id that
\* errorHandler echoes in an error body aside
SameAnswer(a, b) ==
    /\ a.status = b.status
    /\ [a.body EXCEPT !.request_id = 0] = [b.body EXCEPT !.request_id = 0]

\* C3: as long as no record can have expired (the clock is within the retention
\* window of the first request), identical requests under one merchant and one
\* Idempotency-Key cause at most one call of the points service and one ledger row,
\* and those that were answered got the same status and body.
C3_ExactlyOnce ==
    now <= IDEMPOTENCY_TTL =>
        \A r1, r2 \in 1..Len(requests) :
            SameRequest(r1, r2) =>
                /\ ~(Invoked(r1) /\ Invoked(r2))
                /\ Cardinality(RowsOf(r1) \cup RowsOf(r2)) <= 1
                /\ requests[r1].pc = "done" /\ requests[r2].pc = "done" =>
                       SameAnswer(requests[r1].response, requests[r2].response)

\* two identical credit requests under one key have each written a ledger row and got
\* different bodies, within the retention window
C3_DoubleCredit ==
    /\ now <= IDEMPOTENCY_TTL
    /\ \E r1, r2 \in 1..Len(requests) :
          /\ SameRequest(r1, r2)
          /\ requests[r1].pc = "done" /\ requests[r2].pc = "done"
          /\ requests[r1].response.status = 200 /\ requests[r2].response.status = 200
          /\ ~SameAnswer(requests[r1].response, requests[r2].response)
          /\ RowsOf(r1) # {} /\ RowsOf(r2) # {}

\* a request answered from the store is finished: no handler behind
\* requireIdempotency ran for it, it wrote no ledger row and sent no webhook
C4_Inv ==
    \A r \in 1..Len(requests) :
        requests[r].replayed =>
            /\ requests[r].pc = "done"
            /\ ~Invoked(r)
            /\ RowsOf(r) = {}
            /\ \A i \in 1..Len(webhooks) :
                  webhooks[i].reference_id # ServiceInput(requests[r].req, r).reference_id

C4_Step ==
    /\ \A req \in HttpRequests :
          LET scopedKey == ScopedKey(req.merchant_id, req.key) IN
          /\ Arrive(req)
          /\ KeyPattern(req.key)
          /\ scopedKey \in DOMAIN idempotencyStore
          /\ now - idempotencyStore[scopedKey].createdAt <= IDEMPOTENCY_TTL
          => /\ requests'[Len(requests')].replayed
             /\ requests'[Len(requests')].pc = "done"
             /\ requests'[Len(requests')].response = idempotencyStore[scopedKey].response
             /\ idempotencyStore' = idempotencyStore
             /\ Tables' = Tables
             /\ webhooks' = webhooks
    /\ \A r \in 1..Len(requests) : requests[r].replayed => requests'[r] = requests[r]

\* C4: a request whose scoped key has a record at most IDEMPOTENCY_TTL old is answered
\* by requireIdempotency with the stored status and body, whatever its own body; next
\* is not called (no validation, controller or webhook runs for it), and the store
\* and the ledger tables are as before.
C4_Replay == [](C4_Inv) /\ [][C4_Step]_vars

\* a request was answered from the record of an earlier request with the same key
\* and a different body, the record being exactly IDEMPOTENCY_TTL old
C4_Witness ==
    \E r0, r \in 1..Len(requests) :
        /\ r0 < r
        /\ requests[r].replayed
        /\ ~requests[r0].replayed
        /\ requests[r0].pc = "done"
        /\ requests[r0].req.key = requests[r].req.key
        /\ requests[r0].req.points # requests[r].req.points
        /\ requests[r0].req.endpoint # requests[r].req.endpoint
        /\ requests[r].response = requests[r0].response
        /\ ScopedKey(requests[r].req.merchant_id, requests[r].req.key) \in DOMAIN idempotencyStore
        /\ now - idempotencyStore[ScopedKey(requests[r].req.merchant_id, requests[r].req.key)].createdAt
               = IDEMPOTENCY_TTL

----------------------------------------------------------------------------
(* Properties of the ledger entries                                         *)

\* the ledger as it was, with exactly one row appended
AppendsOne == Len(Pointsledger') = Len(Pointsledger) + 1
                  /\ SubSeq(Pointsledger', 1, Len(Pointsledger)) = Pointsledger

C11_Step ==
    \A t \in Trx :
        LET k == <<trx[t].input.merchant_id, trx[t].input.customer_uid>>
            amount == trx[t].input.amount
            e == Pointsledger'[Len(Pointsledger')] IN
        /\ (trx[t].pc = "commit" /\ trx'[t].pc = "idle") =>
              /\ AppendsOne
              /\ returned'.status = "ok" /\ returned'.entry = <<e>>
              /\ e.status = SUCCESSFUL
              /\ e.points = amount
              /\ e.ledger_type = trx[t].op
              /\ e.merchant_id = k[1] /\ e.member_uid = k[2]
              /\ e.reference_id = trx[t].input.reference_id
              /\ e.points_balance_before = trx[t].pointsBefore
              /\ e.points_balance_before = Customers[k]
              /\ e.points_balance_after =
                     (IF trx[t].op = CREDIT THEN e.points_balance_before + amount
                      ELSE e.points_balance_before - amount)
              /\ e.points_balance_after = Customers'[k]
        /\ (trx[t].pc = "rollback" /\ trx'[t].pc = "idle") =>
              /\ Pointsledger' = Pointsledger
              /\ returned'.status = "error" /\ returned'.entry = << >>

\* C11: a creditPoints or debitPoints call that succeeds appends exactly one ledger
\* row: status successful, points = amount, the direction of the call,
\* points_balance_before the customer balance read under the lock (still the committed
\* balance), points_balance_after = before + amount (credit) or before - amount
\* (debit), the customer balance after the commit; a call that fails appends none.
C11_OneEntryPerSuccess == [][C11_Step]_vars

\* a debit has just committed after an earlier credit to the same customer
C11_Witness ==
    /\ returned.status = "ok"
    /\ returned.op = DEBIT
    /\ Len(Pointsledger) >= 2
    /\ returned.entry = <<Pointsledger[Len(Pointsledger)]>>
    /\ \E i \in 1..(Len(Pointsledger) - 1) :
          /\ Pointsledger[i].ledger_type = CREDIT
          /\ Pointsledger[i].member_uid = returned.input.customer_uid

C12_Step ==
    /\ Len(Pointsledger') >= Len(Pointsledger)
    /\ \A i \in 1..Len(Pointsledger) : Pointsledger'[i] = Pointsledger[i]

\* C12: the ledger is append-only. Every step of creditPoints and debitPoints leaves
\* each existing ledger row in place with all of its field values; the ledger only
\* grows.
C12_AppendOnly == [][C12_Step]_vars

\* a second row for a customer has been committed after that customer's first row
C12_Witness ==
    \E i, j \in 1..Len(Pointsledger) :
        /\ i < j
        /\ Pointsledger[i].member_uid = Pointsledger[j].member_uid
        /\ Pointsledger[i].ledger_type # Pointsledger[j].ledger_type

RowsWithReference(ref) == {i \in 1..Len(Pointsledger) : Pointsledger[i].reference_id = ref}

C13_Inv ==
    /\ \A ref \in RefIds : Cardinality(RowsWithReference(ref)) <= 1
    /\ C6_BalancesMatchLedger

C13_Step ==
    \A t \in Trx :
        (/\ trx[t].pc \in {"c_insert", "d_insert"}
         /\ trx'[t].pc # trx[t].pc
         /\ RowsWithReference(trx[t].input.reference_id) # {}) =>
            /\ trx'[t].pc = "rollback"
            /\ trx'[t].wLedger = << >>
            /\ Tables' = Tables

\* C13: reference_id deduplicates at the ledger. No two ledger rows carry the same
\* reference_id, and the balances are the initial balances moved by the ledger rows
\* (one transfer per row); the insert of a call whose reference_id is already in the
\* ledger fails, so that call rolls back.
C13_ReferenceDedup == [](C13_Inv) /\ [][C13_Step]_vars

\* a call with the reference_id and the input of a committed call has just failed
\* at the insert
C13_Witness ==
    /\ returned.status = "error"
    /\ returned.code = "unique_violation"
    /\ \E i \in 1..Len(Pointsledger) :
          /\ Pointsledger[i].reference_id = returned.input.reference_id
          /\ Pointsledger[i].member_uid = returned.input.customer_uid
          /\ Pointsledger[i].points = returned.input.amount
          /\ Pointsledger[i].ledger_type = returned.op

----------------------------------------------------------------------------
(* Properties of the idempotency layer: what is stored, for whom, how long  *)

\* C14: an idempotency record is stored only for a call that completed successfully:
\* every record in the store holds a success response, and no request is answered
\* from the store with an error response.
C14_StoredOnlyOnSuccess ==
    /\ \A s \in DOMAIN idempotencyStore : idempotencyStore[s].response.body.status
    /\ \A r \in 1..Len(requests) : requests[r].replayed => requests[r].response.body.status

\* a request with a valid body was answered with the stored validation error of an
\* earlier request under the same key; the business logic did not run for it
C14_ErrorReplayed ==
    \E r \in 1..Len(requests) :
        /\ requests[r].replayed
        /\ SchemaOk(requests[r].req)
        /\ requests[r].response.status = 400
        /\ requests[r].response.body.code = "validation_error"
        /\ ~Invoked(r)

\* the request that arrives in this step
Arrived == requests'[Len(requests')]

\* a header value of 1 to 100 characters, none of them outside [a-zA-Z0-9_-]
WellFormed(key) ==
    /\ Len(key) >= 1
    /\ Len(key) <= 100
    /\ \A i \in 1..Len(key) : key[i] \notin {" ", "!", ":"}

\* the request was rejected by requireIdempotency with this error code
RejectedWith(request, code) ==
    /\ request.pc = "done"
    /\ ~request.replayed
    /\ request.outcome = NoOutcome
    /\ request.response.status = 400
    /\ ~request.response.body.status
    /\ request.response.body.code = code

C15_Inv ==
    \A r \in 1..Len(requests) :
        ~WellFormed(requests[r].req.key) =>
            /\ requests[r].pc = "done"
            /\ ~Invoked(r)
            /\ RowsOf(r) = {}

C15_Step ==
    \A req \in KeyRequests :
        Arrive(req) /\ ~WellFormed(req.key) =>
            /\ RejectedWith(Arrived, IF req.key = << >> THEN "idempotency_key_required"
                                     ELSE "invalid_idempotency_key")
            /\ idempotencyStore' = idempotencyStore
            /\ Tables' = Tables
            /\ webhooks' = webhooks

\* C15: a POST without Idempotency-Key is answered 400 idempotency_key_required, a
\* POST whose key is not 1 to 100 characters of [a-zA-Z0-9_-] is answered 400
\* invalid_idempotency_key; in that step the store, the ledger tables and the webhooks
\* are unchanged, and neither validation nor a controller ever runs for the request.
C15_KeyRejected == [](C15_Inv) /\ [][C15_Step]_vars

\* a request without key and a request with a key of 101 characters have been
\* rejected, and the store holds a record of a third request
C15_Witness ==
    /\ Len(requests) = MaxHttp
    /\ \E r1, r2 \in 1..Len(requests) :
          /\ RejectedWith(requests[r1], "idempotency_key_required")
          /\ RejectedWith(requests[r2], "invalid_idempotency_key")
          /\ Len(requests[r2].req.key) = 101
    /\ DOMAIN idempotencyStore # {}

\* merchant ids a deployment could use, among them ids that contain the separator
IdStrings == {<<"m", "1">>, <<"m", "2">>, <<"m">>, <<"m", ":", "k">>, <<"m", ":">>}

\* header values as a client could send them
KeyStrings == {<<"k">>, <<"j">>, <<"1">>, <<"2">>, <<"k", ":", "k">>, <<":", "k">>, <<"k", "1">>}

\* distinct (merchant, accepted key) pairs have distinct scoped keys
C16_Injective ==
    \A id1, id2 \in IdStrings, key1, key2 \in KeyStrings :
        /\ KeyPattern(key1)
        /\ KeyPattern(key2)
        /\ ScopedString(id1, key1) = ScopedString(id2, key2)
        => id1 = id2 /\ key1 = key2

\* a request answered from the store gets the response of an earlier request of the
\* same merchant under the same key
C16_Inv ==
    \A r \in 1..Len(requests) :
        requests[r].replayed =>
            \E r0 \in 1..(r - 1) :
                /\ requests[r0].req.merchant_id = requests[r].req.merchant_id
                /\ requests[r0].req.key = requests[r].req.key
                /\ ~requests[r0].replayed
                /\ requests[r0].pc = "done"
                /\ requests[r0].response = requests[r].response

\* a request whose merchant and key no earlier request has used goes on to the
\* business logic
C16_Step ==
    \A req \in KeyRequests :
        (/\ Arrive(req)
         /\ WellFormed(req.key)
         /\ \A r0 \in 1..Len(requests) :
               requests[r0].req.merchant_id # req.merchant_id \/ requests[r0].req.key # req.key)
        => /\ Arrived.pc = "validate"
           /\ ~Arrived.replayed
           /\ idempotencyStore' = idempotencyStore

\* C16: idempotency records are isolated per merchant. Distinct (merchant, key) pairs
\* have distinct scoped keys; a request is answered from the store only with the
\* response of an earlier request of the same merchant under the same key; a request
\* under a (merchant, key) pair not used before runs the business logic, whatever
\* other merchants or other keys of the same merchant have stored.
C16_MerchantIsolation == [](C16_Injective /\ C16_Inv) /\ [][C16_Step]_vars

\* merchant m1 stored a success under key k; merchant m2 then used the same key and
\* its request ran the business logic; m1's next request under k was replayed
C16_Witness ==
    \E r1, r2, r3 \in 1..Len(requests) :
        /\ r1 < r2 /\ r2 < r3
        /\ requests[r1].req.key = requests[r2].req.key
        /\ requests[r1].req.key = requests[r3].req.key
        /\ requests[r1].req.merchant_id = "m1"
        /\ requests[r2].req.merchant_id = OtherMerchant
        /\ requests[r3].req.merchant_id = "m1"
        /\ requests[r1].pc = "done" /\ requests[r1].response.status = 200
        /\ requests[r2].pc = "done" /\ Invoked(r2) /\ ~requests[r2].replayed
        /\ requests[r3].replayed /\ requests[r3].response = requests[r1].response
        /\ Cardinality(DOMAIN idempotencyStore) = 2

\* the age of the record stored under the key of this request
AgeOfRecord(req) == now - idempotencyStore[ScopedKey(req.merchant_id, req.key)].createdAt

\* a request with an accepted key arrives: a record older than the window is deleted
\* and the request goes on; a record at most as old as the window is replayed and
\* kept; without a record (never stored, or swept) the request goes on
C17_Arrive ==
    \A req \in HttpRequests :
        (Arrive(req) /\ WellFormed(req.key)) =>
            LET scopedKey == ScopedKey(req.merchant_id, req.key) IN
            IF scopedKey \notin DOMAIN idempotencyStore
            THEN Arrived.pc = "validate" /\ idempotencyStore' = idempotencyStore
            ELSE IF AgeOfRecord(req) > 24 * 60 * 60 * 1000
            THEN /\ Arrived.pc = "validate"
                 /\ ~Arrived.replayed
                 /\ scopedKey \notin DOMAIN idempotencyStore'
                 /\ \A s \in DOMAIN idempotencyStore \ {scopedKey} :
                        s \in DOMAIN idempotencyStore' /\ idempotencyStore'[s] = idempotencyStore[s]
            ELSE /\ Arrived.pc = "done"
                 /\ Arrived.replayed
                 /\ Arrived.response = idempotencyStore[scopedKey].response
                 /\ idempotencyStore' = idempotencyStore

\* a request that went on is answered through the replaced res.json: the store then
\* holds its response under its scoped key, created at the time of the answer
C17_Fresh ==
    \A r \in 1..Len(requests) :
        (requests[r].pc # "done" /\ requests'[r].pc = "done") =>
            LET scopedKey == ScopedKey(requests[r].req.merchant_id, requests[r].req.key) IN
            /\ scopedKey \in DOMAIN idempotencyStore'
            /\ idempotencyStore'[scopedKey] = [response |-> requests'[r].response, createdAt |-> now]

\* C17: a record older than the 24h retention window is treated as absent whether or
\* not cleanupExpiredKeys has run: a request with that scoped key deletes the record,
\* goes through the request path again and stores a fresh record when it is answered;
\* a record at most 24h old is always replayed.
C17_Expiry == [][C17_Arrive /\ C17_Fresh]_vars

\* after more than 24h a second request under the key of an answered request was not
\* replayed; it ran the business logic and the store holds its response as a fresh
\* record
C17_Witness ==
    \E r1, r2 \in 1..Len(requests) :
        LET scopedKey == ScopedKey(requests[r2].req.merchant_id, requests[r2].req.key) IN
        /\ r1 < r2
        /\ requests[r1].req = requests[r2].req
        /\ requests[r1].pc = "done" /\ requests[r2].pc = "done"
        /\ ~requests[r1].replayed /\ ~requests[r2].replayed
        /\ requests[r1].response.status = 200
        /\ Invoked(r2)
        /\ now > IDEMPOTENCY_TTL
        /\ scopedKey \in DOMAIN idempotencyStore
        /\ idempotencyStore[scopedKey] = [response |-> requests[r2].response, createdAt |-> now]

----------------------------------------------------------------------------
\* Properties of the event service: no subscribers, stray replies, shutdown

NoSubscribers ==
    AppError("No subscribers available to process the event. Dashboard backend may be offline.",
             503, "no_subscribers")

C18_Step ==
    \A id \in CorrIds :
        PublishResolved(id, 0) =>
            /\ id \notin DOMAIN pendingRequests'
            /\ timer'[id] # "armed"
            /\ Settled(future'[id])
            /\ future[id].state = "pending" =>
                   /\ future'[id] = NoSubscribers
                   /\ timer[id] = "armed"
                   /\ timer'[id] = "cleared"
            /\ future[id].state # "pending" => future'[id] = future[id] /\ timer'[id] = timer[id]
            /\ OthersUnchanged(id)

\* C18: when publish reports zero subscribers, the outstanding requestReply is
\* rejected in that same step, before its deadline, with no_subscribers (503); its
\* deadline timer is cancelled, so that it never fires, and no waiter for its
\* correlation id remains in pendingRequests. No other request is touched. (A
\* request that the deadline or shutdown had already failed keeps that failure.)
C18_NoSubscribers == [][C18_Step]_vars

\* a request failed with no_subscribers while its timer was still armed: the timer
\* is cleared, its waiter is gone, and another request is still waiting
C18_Witness ==
    \E id, other \in CorrIds :
        /\ future[id] = NoSubscribers
        /\ timer[id] = "cleared"
        /\ publish[id] = "settled"
        /\ id \notin DOMAIN pendingRequests
        /\ other \in DOMAIN pendingRequests
        /\ timer[other] = "armed"

\* the message has no waiter: its text cannot be parsed, or the correlation id it
\* names is not in pendingRequests
Stray(message) == ~message.json \/ message.result.correlationId \notin DOMAIN pendingRequests

C19_Step ==
    \A message \in Messages :
        (OnMessage(RESULTS_CHANNEL, message) /\ Stray(message)) =>
            /\ pendingRequests' = pendingRequests
            /\ future' = future
            /\ timer' = timer
            /\ logged' = IF message.json
                         THEN LogLine("warn", "Received result for unknown correlationId",
                                      message.result.correlationId)
                         ELSE LogLine("error", "Failed to parse event result", 0)

\* C19: a message on the results channel that cannot be parsed, or whose correlation
\* id has no registered waiter (timed out, already answered, failed otherwise, or an
\* id of another instance), is logged and dropped: pendingRequests is unchanged, no
\* promise is settled or changed and no timer is touched.
C19_StrayDropped == [][C19_Step]_vars

\* a second reply for a request that was already answered has been logged and
\* dropped while another request is still waiting
C19_Witness ==
    \E id, other \in CorrIds :
        /\ logged = LogLine("warn", "Received result for unknown correlationId", id)
        /\ future[id].state = "resolved"
        /\ timer[id] = "cleared"
        /\ other \in DOMAIN pendingRequests
        /\ future[other].state = "pending"
        /\ timer[other] = "armed"

ShuttingDown == PlainError("Service shutting down")

C20_Step ==
    shutdown =>
        /\ \A id \in CorrIds :
              IF future[id].state = "pending"
              THEN /\ future'[id] = ShuttingDown
                   /\ timer[id] = "armed"
                   /\ timer'[id] = "cleared"
              ELSE /\ future'[id] = future[id]
                   /\ timer'[id] = timer[id]
        /\ \A id \in CorrIds : timer'[id] # "armed"
        /\ pendingRequests' = << >>

\* a timer that was cleared stays cleared: its callback never runs
C20_Cleared == \A id \in CorrIds : timer[id] = "cleared" => timer'[id] = "cleared"

\* C20: shutdown rejects every outstanding requestReply promise with the error
\* "Service shutting down", clears the deadline timer of each so that no timeout fires
\* afterwards, and leaves pendingRequests empty; promises settled before keep their
\* outcome.
C20_Shutdown == [][C20_Step /\ C20_Cleared]_vars

\* two requests were outstanding at shutdown: both are rejected with the shutdown
\* error, both timers are cleared and pendingRequests is empty
C20_Witness ==
    \E id, other \in CorrIds :
        /\ id # other
        /\ future[id] = ShuttingDown
        /\ future[other] = ShuttingDown
        /\ timer[id] = "cleared"
        /\ timer[other] = "cleared"
        /\ pendingRequests = << >>
        /\ ~initialized

\* shutdown has run and initialize has not run since: the listener of an earlier
\* initialize is registered, the flag is reset
AfterShutdown == ~initialized /\ listeners > 0

\* C21: after shutdown and until initialize has been called again no new request is
\* accepted: no step in that window registers a waiter or publishes an envelope.
C21_NoNewRequests ==
    [][AfterShutdown =>
          /\ DOMAIN pendingRequests' \subseteq DOMAIN pendingRequests
          /\ published' = published]_vars

\* a request issued after shutdown, before any new initialize, is registered with an
\* armed timer and its envelope is published; the request that was outstanding at
\* shutdown carries the shutdown error
C21_AcceptedAfterShutdown ==
    \E id, other \in CorrIds :
        /\ AfterShutdown
        /\ id < other
        /\ future[id] = ShuttingDown
        /\ other \in DOMAIN pendingRequests
        /\ future[other].state = "pending"
        /\ timer[other] = "armed"
        /\ Len(published) = other
        /\ published[other].channel = EVENTS_CHANNEL

C22_Step ==
    /\ forgotten' # forgotten =>
           /\ pendingRequests' = pendingRequests
           /\ future' = future
           /\ timer' = timer
           /\ published' = published
    /\ \A i \in 1..Len(forgotten) :
           /\ forgotten[i].promise = "pending" /\ forgotten'[i].promise # "pending" =>
                  forgotten'[i].promise = "fulfilled"
           /\ ForgetPublishRejected(i) =>
                  /\ forgotten'[i].promise = "fulfilled"
                  /\ logged' = LogLine("error", "Failed to publish fire-and-forget event", 0)

\* C22: fireAndForget registers no waiter (pendingRequests, the promises and the
\* timers of requestReply are unchanged by every step of it) and always completes
\* normally for its caller: the promise it returned is never rejected, and a publish
\* failure is logged.
C22_FireAndForget ==
    [](\A i \in 1..Len(forgotten) : forgotten[i].promise # "rejected") /\ [][C22_Step]_vars

\* a fire-and-forget publish failed while a request was outstanding: the failure is
\* logged, the caller's promise is fulfilled and the waiter is still registered
C22_Witness ==
    \E i \in 1..Len(forgotten), id \in CorrIds :
        /\ forgotten[i].promise = "fulfilled"
        /\ forgotten[i].channel = EVENTS_CHANNEL
        /\ logged = LogLine("error", "Failed to publish fire-and-forget event", 0)
        /\ id \in DOMAIN pendingRequests
        /\ future[id].state = "pending"
        /\ timer[id] = "armed"

\* the AppError a failed reply stands for: the fields of its error, each replaced by
\* its default when it is missing
RemoteFailure(error) ==
    [state |-> "rejected", kind |-> "AppError", data |-> "",
     message |-> IF error.message = "" THEN "Remote processing failed" ELSE error.message,
     statusCode |-> IF error.statusCode = 0 THEN 500 ELSE error.statusCode,
     code |-> IF error.code = "" THEN "remote_error" ELSE error.code]

C23_Step ==
    \A message \in Messages :
        (/\ OnMessage(RESULTS_CHANNEL, message)
         /\ message.json
         /\ message.result.correlationId \in DOMAIN pendingRequests) =>
            LET res == message.result
                id == res.correlationId IN
            /\ future[id].state = "pending"
            /\ future'[id] = IF res.success
                             THEN [state |-> "resolved", kind |-> "value", data |-> res.data,
                                   message |-> "", statusCode |-> 0, code |-> ""]
                             ELSE RemoteFailure(res.error)
            /\ \A other \in CorrIds \ {id} :
                   /\ future'[other] = future[other]
                   /\ timer'[other] = timer[other]
                   /\ other \in DOMAIN pendingRequests => other \in DOMAIN pendingRequests'

\* C23: with several requests outstanding, replies may arrive in any order. A reply
\* settles only the promise of the correlation id it carries: resolved with the
\* reply's data when success is true, otherwise rejected with an AppError made of the
\* reply's message, statusCode and code (defaults "Remote processing failed", 500,
\* remote_error); every other waiter stays registered and pending.
C23_ReplyRouting == [][C23_Step]_vars

\* the reply to the second request came first, without error fields: the second
\* promise is rejected with the defaults while the first request is still waiting
C23_Witness ==
    \E id, other \in CorrIds :
        /\ id < other
        /\ future[other] = AppError("Remote processing failed", 500, "remote_error")
        /\ other \notin DOMAIN pendingRequests
        /\ id \in DOMAIN pendingRequests
        /\ future[id].state = "pending"
        /\ timer[id] = "armed"

----------------------------------------------------------------------------
\* Properties of the webhook dispatcher

Failed(post) == post.result \in {"non2xx", "error", "timeout"}

C24_Inv ==
    \A i \in 1..Len(deliveries) :
        LET d == deliveries[i]
            n == Len(d.posts) IN
        /\ n <= 3
        /\ \A k \in 1..n : d.posts[k].attempt = k
        \* an attempt is made only after every earlier attempt has failed
        /\ \A k \in 1..(n - 1) : Failed(d.posts[k])
        \* a successful attempt is the last one
        /\ (n > 0 /\ d.posts[n].result = "2xx") => d.pc = "done" /\ d.process = "fulfilled"
        \* the third failure is terminal
        /\ (n = 3 /\ Failed(d.posts[3])) =>
               /\ d.pc = "done"
               /\ d.process = "rejected"
               /\ d.error = "Failed to deliver webhook after 3 attempts"
        \* a failure before that is followed by a retry
        /\ (n \in 1..2 /\ Failed(d.posts[n])) => d.pc = "wait" /\ ENABLED RetryTimer(i)

C24_Step ==
    \A i \in 1..Len(deliveries) :
        LET d == deliveries[i] IN
        /\ d.pc = "done" => deliveries'[i] = d
        /\ d.pc = "wait" /\ deliveries'[i] # d =>
               /\ Len(deliveries'[i].posts) = Len(d.posts) + 1
               /\ deliveries'[i].posts[Len(d.posts) + 1].result = "inflight"
               /\ deliveries'[i].pc = "attempt"

\* C24: for one webhook sendWithRetry makes at most 3 HTTP attempts. An attempt that
\* ends in a non-2xx response, a transport error or a timeout is followed by a retry
\* as long as fewer than 3 attempts were made; a successful attempt is the last one;
\* after the third failed attempt the delivery has failed for good: no step changes
\* it any more.
C24_AtMostThreeAttempts == [](C24_Inv) /\ [][C24_Step]_vars

\* a delivery whose three attempts failed, each in another way, has ended in failure
C24_Witness ==
    \E i \in 1..Len(deliveries) :
        LET d == deliveries[i] IN
        /\ Len(d.posts) = 3
        /\ d.posts[1].result = "non2xx"
        /\ d.posts[2].result = "error"
        /\ d.posts[3].result = "timeout"
        /\ d.pc = "done"
        /\ d.process = "rejected"

\* the k-th failed attempt of the delivery has been followed by a wait of ms
\* milliseconds, finished or still running
WaitAfter(d, k, ms) ==
    \/ Len(d.waits) >= k /\ d.waits[k] = ms
    \/ d.pc = "wait" /\ d.attempt = k /\ Len(d.waits) = k - 1 /\ Delay(k) = ms

AnsweredFor(d) ==
    {r \in 1..Len(requests) :
        /\ requests[r].pc = "done"
        /\ ~requests[r].replayed
        /\ requests[r].response.status = 200
        /\ requests[r].response.body.data[1].reference_id = d.data}

C26_Inv ==
    \A i \in 1..Len(deliveries) :
        LET d == deliveries[i] IN
        /\ d.returned = "fulfilled"
        \* a rejection of processWebhook ends in the catch of sendWebhook
        /\ d.process = "rejected" => d.caught
        \* the response of the controller stands, whatever became of the delivery
        /\ d.event = "points.earned" => AnsweredFor(d) # {}

\* a step of a delivery leaves the requests, their stored responses and the ledger
\* tables as they are
C26_Step ==
    \A i \in 1..Len(deliveries) :
        deliveries'[i] # deliveries[i] =>
            /\ requests' = requests
            /\ idempotencyStore' = idempotencyStore
            /\ Merchants' = Merchants
            /\ Customers' = Customers
            /\ Pointsledger' = Pointsledger

\* C26: sendWebhook never fails its caller. The promise it returns is fulfilled
\* whatever happens during the delivery (the query on Merchants throwing, all three
\* attempts failing): every rejection of processWebhook is caught and logged inside
\* sendWebhook; and the response the controller produced, the record stored for it
\* and the ledger are not changed by any step of the delivery.
C26_NeverFailsCaller == [](C26_Inv) /\ [][C26_Step]_vars

\* the webhook of an answered credit failed in all three attempts, and for another
\* webhook the query on Merchants threw: both calls of sendWebhook returned normally
\* and the credit keeps its 200 response and its ledger entry
C26_Witness ==
    \E i, j \in 1..Len(deliveries) :
        /\ deliveries[i].event = "points.earned"
        /\ Len(deliveries[i].posts) = 3
        /\ deliveries[i].process = "rejected"
        /\ deliveries[i].returned = "fulfilled"
        /\ deliveries[j].error = "query failed"
        /\ deliveries[j].returned = "fulfilled"
        /\ AnsweredFor(deliveries[i]) # {}
        /\ Len(Pointsledger) = 1

\* the merchants a webhook cannot be sent for: no row, no URL, no secret
Unconfigured == {"m0", "m2", "m3"}

C27_Inv ==
    \A i \in 1..Len(deliveries) :
        LET d == deliveries[i] IN
        d.merchantId \in Unconfigured =>
            /\ d.posts = << >>
            /\ d.waits = << >>
            /\ d.pc \in {"lookup", "done"}

C27_Step ==
    \A i \in 1..Len(deliveries), ms \in LookupDelays :
        (processWebhook(i, ms, FALSE) /\ deliveries[i].merchantId \in Unconfigured) =>
            /\ deliveries'[i].pc = "done"
            /\ deliveries'[i].process = "fulfilled"
            /\ deliveries'[i].error = ""
            /\ ~deliveries'[i].caught
            /\ deliveries'[i].posts = << >>

\* C27: if the merchant does not exist, has no webhook URL or has no webhook secret,
\* processWebhook ends when the query on Merchants has returned: no HTTP attempt is
\* ever made for that webhook and its promise is fulfilled, nothing is thrown.
C27_SilentAbort == [](C27_Inv) /\ [][C27_Step]_vars

\* the webhook of the merchant that has a URL and no secret has ended without an
\* attempt and without an error
C27_Witness ==
    \E i \in 1..Len(deliveries) :
        /\ deliveries[i].merchantId = NoSecretMerchant
        /\ WebhookConfig(NoSecretMerchant).webhook_url # ""
        /\ deliveries[i].pc = "done"
        /\ deliveries[i].process = "fulfilled"
        /\ deliveries[i].posts = << >>

\* the committed ledger rows a webhook call reports
RowsReported(w) ==
    {k \in 1..Len(Pointsledger) :
        /\ Pointsledger[k].reference_id = w.reference_id
        /\ Pointsledger[k].merchant_id = w.merchant_id
        /\ Pointsledger[k].ledger_type = (IF w.event = "points.earned" THEN "credit" ELSE "debit")}

\* the requests that were answered by their controller with a success
Succeeded == {r \in 1..Len(requests) :
                 requests[r].pc = "done" /\ ~requests[r].replayed /\ requests[r].outcome.ok}

C28_Inv ==
    /\ \A i \in 1..Len(webhooks) :
           /\ webhooks[i].event \in {"points.earned", "points.redeemed"}
           /\ Cardinality(RowsReported(webhooks[i])) = 1
           /\ \A j \in 1..Len(webhooks) : webhooks[j].reference_id = webhooks[i].reference_id => j = i
    \* one call per successful request and none for any other
    /\ Len(webhooks) = Cardinality(Succeeded)
    /\ Len(deliveries) = Len(webhooks)

C28_Step ==
    webhooks' # webhooks =>
        \E r \in 1..Len(requests) :
            /\ requests[r].pc = "respond"
            /\ requests[r].outcome.ok
            /\ ~requests[r].replayed
            /\ \E k \in 1..Len(Pointsledger) : Pointsledger[k] = requests[r].outcome.ledger[1]
            /\ Pointsledger' = Pointsledger
            /\ requests'[r].pc = "done"
            /\ requests'[r].response.status = 200
            /\ webhooks' = Append(webhooks,
                   [merchant_id |-> requests[r].req.merchant_id,
                    event |-> IF requests[r].req.endpoint = "credit"
                              THEN "points.earned" ELSE "points.redeemed",
                    reference_id |-> requests[r].outcome.ledger[1].reference_id])

\* C28: a points.earned or points.redeemed webhook is dispatched only after the
\* ledger mutation of its request has been committed: every dispatched webhook
\* reports exactly one committed ledger row of its merchant and its kind, there is
\* one webhook per successfully answered request, and a request whose credit or debit
\* failed, or that was answered from the idempotency store, dispatches none.
C28_WebhookAfterCommit == [](C28_Inv) /\ [][C28_Step]_vars

\* of three requests one redeemed points and dispatched points.redeemed, one was
\* answered from the store and one failed: there is one webhook
C28_Witness ==
    \E r1, r2, r3 \in 1..Len(requests) :
        /\ requests[r1].pc = "done" /\ requests[r1].outcome.ok
        /\ requests[r1].req.endpoint = "redeem"
        /\ requests[r2].pc = "done" /\ requests[r2].replayed /\ requests[r2].response.status = 200
        /\ requests[r3].pc = "done" /\ ~requests[r3].replayed
        /\ requests[r3].response.body.code = "insufficient_points"
        /\ Len(webhooks) = 1
        /\ webhooks[1].event = "points.redeemed"

\* the receiver's reading of the X-Rewrd-Signature header: the parts before and after
\* the comma, each after its "="
ParseSignatureHeader(header) == [t |-> header[2], v1 |-> header[5]]

\* HMAC-SHA256 with the merchant secret over "<t>.<body>", recomputed from what was
\* delivered
Recomputed(secret, t, body) == <<"hmac-sha256", secret, <<t, ".">> \o body>>

\* C29: webhook signature round trip. For every HTTP attempt of every webhook, the
\* first and the retries alike, recomputing HMAC-SHA256 with the merchant's secret
\* over "<t>.<JSON body>", with the t of the delivered signature header and the
\* delivered body, gives exactly the v1 of that header.
C29_SignatureRoundTrip ==
    \A i \in 1..Len(deliveries) :
        \A k \in 1..Len(deliveries[i].posts) :
            LET post == deliveries[i].posts[k]
                secret == WebhookConfig(deliveries[i].merchantId).webhook_secret
                sent == ParseSignatureHeader(post.header) IN
            /\ post.header[1] = "t=" /\ post.header[3] = "," /\ post.header[4] = "v1="
            /\ secret # ""
            /\ Recomputed(secret, sent.t, post.body) = sent.v1

\* a webhook signed 1.5 s after the call was delivered by its second attempt: the
\* header carries t = 1 and the signature of the delivered body
C29_Witness ==
    \E i \in 1..Len(deliveries) :
        LET d == deliveries[i] IN
        /\ Len(d.posts) = 2
        /\ d.posts[2].result = "2xx"
        /\ ParseSignatureHeader(d.posts[2].header).t = "1"
        /\ d.posts[2].body = JsonStringify(d.payload)
        /\ ParseSignatureHeader(d.posts[2].header).v1 =
               Recomputed("whsec_m1", "1", d.posts[2].body)

----------------------------------------------------------------------------
\* Properties of the errors that reach the HTTP caller

\* the response has the shape {status: false, message, error: {code, request_id,
\* description}}
ErrorShape(response) ==
    /\ DOMAIN response.body = {"status", "message", "error"}
    /\ response.body.status = FALSE
    /\ DOMAIN response.body.error = {"code", "request_id", "description"}
    /\ response.body.error.description = response.body.message

Answered(id) == answers[id].status # 0

C30_Inv ==
    \A id \in CorrIds :
        (Answered(id) /\ future[id].state = "rejected") =>
            /\ ErrorShape(answers[id])
            /\ answers[id].body.error.request_id = ToString(id)
            \* the deadline
            /\ future[id].code = "event_timeout" =>
                   /\ answers[id].status = 504
                   /\ answers[id].body.error.code = "event_timeout"
                   /\ answers[id].body.message =
                          "Request to dashboard backend timed out (points.credit)"
            \* no subscriber
            /\ future[id].code = "no_subscribers" =>
                   /\ answers[id].status = 503
                   /\ answers[id].body.error.code = "no_subscribers"
            \* every AppError keeps its own status and code
            /\ future[id].kind = "AppError" =>
                   /\ answers[id].status = future[id].statusCode
                   /\ answers[id].body.error.code = future[id].code
                   /\ answers[id].body.message = future[id].message
            \* the generic error is the answer to what is not an AppError, and only that
            /\ answers[id].body.error.code = "internal_server_error" <=> future[id].kind # "AppError"
            /\ future[id].kind # "AppError" =>
                   /\ answers[id].status = 500
                   /\ answers[id].body.message \in {"Internal Server Error", future[id].message}

\* C30: transient infrastructure failures reach the HTTP caller as their own error
\* kinds: the deadline of requestReply as event_timeout with status 504, a publish
\* without subscribers as no_subscribers with status 503, in the shape {status:
\* false, message, error: {code, request_id, description}}; only an error that is not
\* an AppError is answered as internal_server_error with status 500. An answer that
\* was given never changes.
C30_ErrorKinds ==
    [](C30_Inv) /\ [][\A id \in CorrIds : Answered(id) => answers'[id] = answers[id]]_vars

\* one caller was answered 504 event_timeout, another 503 no_subscribers
C30_Witness ==
    \E id, other \in CorrIds :
        /\ answers[id].status = 504
        /\ answers[id].body.error.code = "event_timeout"
        /\ answers[other].status = 503
        /\ answers[other].body.error.code = "no_subscribers"

----------------------------------------------------------------------------
(* Redemption and customer status                                           *)

\* the customer a request names
CustomerOf(req) == <<req.merchant_id, req.customer_uid>>

\* C31: a redemption for a customer whose status is not active is rejected, and
\* the customer balance, the merchant balance and the ledger stay as they were.
C31_Step ==
    \A r \in 1..MaxHttp :
        (/\ Controller(r)
         /\ requests[r].req.endpoint = "redeem"
         /\ customerStatus[CustomerOf(requests[r].req)] # "active")
        => /\ ~requests'[r].outcome.ok
           /\ Customers' = Customers
           /\ Merchants' = Merchants
           /\ Pointsledger' = Pointsledger

C31_RestrictedRejected == [][C31_Step]_vars

\* a customer restricted before the first request (no restrictCustomer call since)
\* whose redemption was answered 200, with its debit row in the ledger
C31_RestrictedRedeemed ==
    \E r \in 1..Len(requests) :
        /\ requests[r].req.endpoint = "redeem"
        /\ customerStatus[CustomerOf(requests[r].req)] = "restricted"
        /\ \A i \in 1..Len(deliveries) : deliveries[i].event # "customer.restricted"
        /\ requests[r].pc = "done"
        /\ ~requests[r].replayed
        /\ requests[r].response.status = 200
        /\ \E i \in 1..Len(Pointsledger) :
              /\ Pointsledger[i].ledger_type = DEBIT
              /\ Pointsledger[i].member_uid = requests[r].req.customer_uid
              /\ Pointsledger[i].reference_id = ServiceInput(requests[r].req, r).reference_id
              /\ Pointsledger[i].points_balance_after < Pointsledger[i].points_balance_before

----------------------------------------------------------------------------
(* The verbs requireIdempotency applies to                                  *)

\* the request that has just arrived
Newest == requests'[Len(requests')]

\* C32: a request whose method is not POST passes requireIdempotency with or without
\* an Idempotency-Key: it is handed to next() without a response of the middleware
\* (no idempotency_key_required, no invalid_idempotency_key, no replay of a stored
\* response, whatever the store holds under its key) and the store stays as it was.
C32_Step ==
    \A req \in VerbRequests :
        (requireIdempotency(req) /\ req.method # "POST")
        => /\ idempotencyStore' = idempotencyStore
           /\ Len(requests') = Len(requests) + 1
           /\ Newest.req = req
           /\ Newest.pc = "next"
           /\ Newest.response = NoResponse
           /\ ~Newest.replayed

C32_Inv ==
    \A r \in 1..Len(requests) :
        requests[r].req.method # "POST"
        => /\ requests[r].pc = "next"
           /\ requests[r].response.body.code # "idempotency_key_required"
           /\ ScopedKey(requests[r].req.merchant_id, requests[r].req.key) \in DOMAIN idempotencyStore
              => \E q \in 1..Len(requests) :
                    /\ requests[q].req.method = "POST"
                    /\ requests[q].req.key = requests[r].req.key

C32_NonPostPasses == []C32_Inv /\ [][C32_Step]_vars

\* a GET without the header and a DELETE under a key that holds a stored response
\* have both been handed on
C32_Witness ==
    \E r, q, p \in 1..Len(requests) :
        /\ requests[r].req.method = "GET"
        /\ requests[r].req.key = << >>
        /\ requests[r].pc = "next"
        /\ requests[p].req.method = "POST"
        /\ requests[p].pc = "done"
        /\ p < q
        /\ requests[q].req.method = "DELETE"
        /\ requests[q].req.key = requests[p].req.key
        /\ ScopedKey(requests[q].req.merchant_id, requests[q].req.key) \in DOMAIN idempotencyStore
        /\ requests[q].pc = "next"

----------------------------------------------------------------------------
(* The delegated points service                                             *)

\* the envelope the step has just handed to publish
NewEnvelope == published'[Len(published')]

\* the fields of the input that the claim names, as the event data carries them
Carries(data, input) ==
    /\ data.merchant_id = input.merchant_id
    /\ data.customer_uid = input.customer_uid
    /\ data.amount = input.amount
    /\ data.reference_id = input.reference_id

\* C33: a delegated creditPoints / debitPoints call issues exactly one requestReply,
\* of type points.credit / points.redeem, whose data carry the merchant_id,
\* customer_uid, amount and reference_id of the input; the call returns the data of
\* a success reply unchanged, and fails with the code, status and message of a
\* failure reply.
C33_Call ==
    \A input \in DelegatedInputs(Len(published) + 1) :
        /\ DelegatedCreditPoints(input)
           => /\ Len(published') = Len(published) + 1
              /\ NewEnvelope.type = "points.credit"
              /\ Carries(NewEnvelope.data, input)
              /\ future'[NewEnvelope.correlationId].state = "pending"
        /\ DelegatedDebitPoints(input)
           => /\ Len(published') = Len(published) + 1
              /\ NewEnvelope.type = "points.redeem"
              /\ Carries(NewEnvelope.data, input)
              /\ future'[NewEnvelope.correlationId].state = "pending"

C33_Reply ==
    \A id \in CorrIds :
        (RemoteReply(id) /\ id \in DOMAIN pendingRequests /\ listeners > 0)
        => LET reply == remote[id].reply
               outcome == DelegatedOutcome(future'[id])
           IN  IF reply.success
               THEN outcome = Resolved(reply.data)
               ELSE /\ outcome.state = "rejected"
                    /\ outcome.kind = "AppError"
                    /\ outcome.code = reply.error.code
                    /\ outcome.statusCode = reply.error.statusCode
                    /\ outcome.message = reply.error.message

C33_Delegation == [][C33_Call /\ C33_Reply]_vars

\* a credit refused for insufficient_merchant_points with 400 next to a redemption
\* resolved with the ledger entry of the reply
C33_Witness ==
    \E id, other \in 1..Len(published) :
        /\ published[id].type = "points.credit"
        /\ DelegatedOutcome(future[id]).code = "insufficient_merchant_points"
        /\ DelegatedOutcome(future[id]).statusCode = 400
        /\ published[other].type = "points.redeem"
        /\ remote[other].reply.success
        /\ DelegatedOutcome(future[other]) = Resolved(EntryData(published[other].data))

----------------------------------------------------------------------------
(* The delegated strategy and the all-or-nothing contract                   *)

\* the ledger entries the dashboard backend created for the call with this id
EntriesOf(id) ==
    {i \in 1..Len(Pointsledger) : Pointsledger[i].reference_id = published[id].data.reference_id}

\* C34: a delegated creditPoints / debitPoints call that has failed for its caller
\* (remote error, event_timeout, no_subscribers, publish error, shutdown) has no
\* balance change and no ledger entry applied by the dashboard backend, and a call
\* that has succeeded has exactly one.
C34_AllOrNothing ==
    \A id \in 1..Len(published) :
        /\ DelegatedOutcome(future[id]).state = "rejected"
           => /\ ~remote[id].applied
              /\ EntriesOf(id) = {}
        /\ DelegatedOutcome(future[id]).state = "resolved"
           => /\ remote[id].applied
              /\ Cardinality(EntriesOf(id)) = 1

\* a credit that failed for its caller with event_timeout while the dashboard
\* backend has moved the points and created the ledger entry
C34_FailedButApplied ==
    \E id \in 1..Len(published) :
        /\ published[id].type = "points.credit"
        /\ DelegatedOutcome(future[id]) = TimeoutError("points.credit")
        /\ remote[id].applied
        /\ Cardinality(EntriesOf(id)) = 1
        /\ Merchants["m1"] = InitMerchants["m1"] - published[id].data.amount
        /\ Customers[<<"m1", "c1">>] = InitCustomers[<<"m1", "c1">>] + published[id].data.amount

----------------------------------------------------------------------------
(* The merchant pool and configuration updates                              *)

\* the step is a call of updateMerchantConfig with a body naming a protected field
ForbiddenUpdate ==
    \E m \in MerchantIds, updates \in Updates :
        /\ DOMAIN updates \cap {"point_balance", "merchant_id", "password", "pin_hash", "id"} # {}
        /\ updateMerchantConfig(m, updates)

\* the step is a call of updateMerchantConfig
ConfigUpdate == \E m \in MerchantIds, updates \in Updates : updateMerchantConfig(m, updates)

\* C35: updateMerchantConfig rejects a body naming point_balance, merchant_id,
\* password, pin_hash or id with forbidden_field_update and writes nothing; no
\* configuration update changes point_balance, which changes only when a ledger
\* transfer commits, together with the ledger entry of the transfer.
C35_Step ==
    /\ ForbiddenUpdate
       => /\ returned'.status = "error"
          /\ returned'.code = "forbidden_field_update"
          /\ Merchants' = Merchants
          /\ merchantConfig' = merchantConfig
          /\ Customers' = Customers
          /\ Pointsledger' = Pointsledger
    /\ ConfigUpdate => Merchants' = Merchants
    /\ Merchants' # Merchants
       => /\ \E t \in Trx : Commit(t)
          /\ Len(Pointsledger') = Len(Pointsledger) + 1

C35_PoolOnlyByTransfers == [][C35_Step]_vars

\* a body naming point_balance has been rejected and an update of the threshold
\* written, and the pool is what the one committed transfer left
C35_Witness ==
    /\ returned.op = "updateMerchantConfig"
    /\ returned.code = "forbidden_field_update"
    /\ merchantConfig["m1"]["minimum_threshold_amount"] = MaxAmount + 1
    /\ Len(Pointsledger) = 1
    /\ Merchants["m1"] = InitPool - 1

----------------------------------------------------------------------------
(* Termination of requests                                                  *)

\* C36: every promise returned by requestReply is eventually settled. While it is
\* pending its deadline timer can fire (default deadline 10 s); when the timer fires
\* the promise is rejected with event_timeout and the waiter leaves the pending map;
\* so, timers firing, no caller waits forever and no waiter stays registered for good.
C36_Deadline ==
    \A id \in CorrIds :
        future[id].state = "pending"
        => /\ ENABLED Timeout(id)
           /\ published[id].timeoutMs = DEFAULT_TIMEOUT_MS

C36_Expiry ==
    \A id \in CorrIds :
        Timeout(id)
        => /\ future'[id].state = "rejected"
           /\ future'[id].code = "event_timeout"
           /\ future'[id].statusCode = 504
           /\ id \notin DOMAIN pendingRequests'

C36_EventuallySettled ==
    /\ [](C36_Deadline)
    /\ [][C36_Expiry]_vars
    /\ \A id \in CorrIds :
          (id \in DOMAIN pendingRequests) ~> (id \notin DOMAIN pendingRequests /\ Settled(future[id]))

\* a request with no reply and no publish result yet, rejected by its deadline
C36_Witness ==
    \E id \in 1..Len(published) :
        /\ publish[id] = "inflight"
        /\ timer[id] = "fired"
        /\ future[id].code = "event_timeout"
        /\ id \notin DOMAIN pendingRequests
        /\ logged = NoLog

----------------------------------------------------------------------------
(* The ledger entries of one customer as a chain                            *)

\* the positions of the customer's entries in the ledger, which is in commit order
EntriesOfCustomer(k) ==
    {i \in 1..Len(Pointsledger) :
        <<Pointsledger[i].merchant_id, Pointsledger[i].member_uid>> = k}

\* the customer's entry before entry i, if there is one
Previous(k, i) == {j \in EntriesOfCustomer(k) : j < i /\ \A h \in EntriesOfCustomer(k) : h < i => h <= j}

\* C37: for each (merchant, customer) the ledger entries, in commit order, form a
\* chain: the first starts at the initial balance, each later entry starts at the
\* balance the previous one ended with, and the last one ends with the customer's
\* current points_balance, under every interleaving of concurrent credits and debits.
C37_LedgerChain ==
    \A k \in CustomerKeys :
        /\ \A i \in EntriesOfCustomer(k) :
              /\ Previous(k, i) = {} => Pointsledger[i].points_balance_before = InitCustomers[k]
              /\ \A j \in Previous(k, i) :
                    Pointsledger[i].points_balance_before = Pointsledger[j].points_balance_after
              /\ (\A h \in EntriesOfCustomer(k) : h <= i)
                    => Pointsledger[i].points_balance_after = Customers[k]
        /\ EntriesOfCustomer(k) = {} => Customers[k] = InitCustomers[k]

\* a customer with a credit and a debit committed, in either order, while another
\* transaction on the same customer is under way
C37_Witness ==
    \E k \in CustomerKeys, i, j \in 1..Len(Pointsledger), t \in Trx :
        /\ i \in EntriesOfCustomer(k)
        /\ j \in EntriesOfCustomer(k)
        /\ Pointsledger[i].ledger_type = CREDIT
        /\ Pointsledger[j].ledger_type = DEBIT
        /\ Active(t)
        /\ <<trx[t].input.merchant_id, trx[t].input.customer_uid>> = k

----------------------------------------------------------------------------
(* The pending map                                                          *)

\* the requests issued whose promise is not settled
Unsettled == {id \in CorrIds : future[id].state = "pending"}

\* C38: between callbacks pendingRequests holds exactly the requests whose promise
\* is not settled, each entry with its own promise and a deadline timer that is still
\* armed, and pendingCount is the number of unsettled promises: no waiter is left
\* behind by a reply, a timeout, a zero-subscriber result, a publish error or shutdown.
C38_PendingMap ==
    /\ DOMAIN pendingRequests = Unsettled
    /\ \A id \in DOMAIN pendingRequests :
          /\ pendingRequests[id].future = id
          /\ timer[pendingRequests[id].timer] = "armed"
    /\ pendingCount = Cardinality(Unsettled)
    /\ \A id \in CorrIds : timer[id] = "armed" => id \in DOMAIN pendingRequests

\* one request settled by the zero-subscriber result and gone from the map, the other
\* still waiting: pendingCount is 1
C38_Witness ==
    \E id, other \in CorrIds :
        /\ future[id].code = "no_subscribers"
        /\ id \notin DOMAIN pendingRequests
        /\ future[other].state = "pending"
        /\ other \in DOMAIN pendingRequests
        /\ pendingCount = 1

----------------------------------------------------------------------------
(* The attempts of one delivery                                             *)

\* C39: all attempts of one webhook delivery carry the same payload (the event id and
\* created_at of the first attempt) and the same signature header (same t, same v1):
\* payload and signature are computed once, before the first attempt, and a retry
\* sends them again as they are.
C39_Inv ==
    \A i \in 1..Len(deliveries) :
        LET d == deliveries[i] IN
        \A p, q \in 1..Len(d.posts) :
            /\ d.posts[p].body = d.posts[q].body
            /\ d.posts[p].header = d.posts[q].header
            /\ d.posts[p].url = d.posts[q].url
            /\ d.posts[p].body = JsonStringify(d.payload)
            /\ d.posts[p].header = d.signatureHeader
            /\ ParseSignatureHeader(d.posts[p].header).t = ParseSignatureHeader(d.posts[1].header).t
            /\ ParseSignatureHeader(d.posts[p].header).v1 = ParseSignatureHeader(d.posts[1].header).v1

C39_Step ==
    \A i \in 1..Len(deliveries) :
        deliveries[i].pc # "lookup"
        => /\ deliveries'[i].payload = deliveries[i].payload
           /\ deliveries'[i].signatureHeader = deliveries[i].signatureHeader
           /\ \A p \in 1..Len(deliveries[i].posts) :
                 /\ deliveries'[i].posts[p].body = deliveries[i].posts[p].body
                 /\ deliveries'[i].posts[p].header = deliveries[i].posts[p].header

C39_SameOnRetry == [](C39_Inv) /\ [][C39_Step]_vars

\* a delivery with three attempts, one, two and four seconds apart from the call,
\* the third sent in a later second than the signature names
C39_Witness ==
    \E i \in 1..Len(deliveries) :
        LET d == deliveries[i] IN
        /\ Len(d.posts) = 3
        /\ d.posts[1].at < d.posts[2].at
        /\ d.posts[2].at < d.posts[3].at
        /\ d.posts[3].header = d.posts[1].header
        /\ d.posts[3].body = d.posts[1].body
        /\ ParseSignatureHeader(d.posts[3].header).t # ToString((d.calledAt + d.posts[3].at) \div 1000)

----------------------------------------------------------------------------
(* Usage statistics of earning rules                                        *)

\* the increment queries started for request r
QueriesOf(r) == {n \in 1..Len(increments) : increments[n].request = r}

\* request r names a rule that is active for its merchant
ValidRule(r) ==
    /\ requests[r].req.endpoint = "credit"
    /\ RuleFound(RuleId(requests[r].req), requests[r].req.merchant_id)

\* request r has passed the lookup of its rule in the controller
PastLookup(r) ==
    \/ requests[r].pc \in {"service", "respond"}
    \/ requests[r].pc = "done" /\ requests[r].outcome # NoOutcome

\* C40: a credit request with a valid rule_id that reaches the controller starts one
\* increment of the rule's users_rewarded, before the ledger mutation is attempted;
\* the credit's outcome does not touch it (a failing credit leaves the increment in
\* place); a request answered from the idempotency store, rejected before the
\* controller, or naming no rule or an inactive one starts none. The counter is the
\* number of increments that went through; it never goes down.
C40_Inv ==
    /\ \A r \in 1..Len(requests) :
          Cardinality(QueriesOf(r)) = IF ValidRule(r) /\ PastLookup(r) THEN 1 ELSE 0
    /\ \A rule \in Rules :
          usersRewarded[rule] =
              Cardinality({n \in 1..Len(increments) :
                              increments[n].rule_id = rule /\ increments[n].state = "done"})

C40_Step ==
    /\ \A rule \in Rules : usersRewarded'[rule] >= usersRewarded[rule]
    /\ \A r \in 1..MaxHttp :
          /\ Service(r)
             => /\ QueriesOf(r) # {}
                /\ Pointsledger = SelectSeq(Pointsledger,
                       LAMBDA row : row.reference_id # ServiceInput(requests[r].req, r).reference_id)
                /\ increments' = increments
                /\ usersRewarded' = usersRewarded
          /\ Respond(r) => increments' = increments /\ usersRewarded' = usersRewarded
    /\ \A req \in RuleRequests :
          Arrive(req) => increments' = increments /\ usersRewarded' = usersRewarded

C40_RuleUsage == [](C40_Inv) /\ [][C40_Step]_vars

\* a credit under the active rule failed for insufficient merchant points and its
\* increment went through; the same request sent again was answered from the store:
\* the counter is 1
C40_Witness ==
    \E r, q \in 1..Len(requests) :
        /\ r < q
        /\ ValidRule(r)
        /\ requests[r].outcome.code = "insufficient_merchant_points"
        /\ requests[r].pc = "done"
        /\ requests[q].req = requests[r].req
        /\ requests[q].replayed
        /\ requests[q].response = requests[r].response
        /\ QueriesOf(q) = {}
        /\ Len(increments) = 1
        /\ usersRewarded[1] = 1
        /\ Pointsledger = << >>

=============================================================================
